---- MODULE Spec2Model ----
(***************************************************************************)
(* Track association engines of the underwater organism tracker:           *)
(*   robust_tracker_v5.py   (RobustTrack, merge_blobs_into_candidates,     *)
(*                           match_candidates_to_tracks, validate_track,   *)
(*                           process_video_robust)                         *)
(*   unified_tracker_v2.py  (UnifiedTrack, calculate_iou, fuse_detections, *)
(*                           match_detections_to_tracks,                   *)
(*                           UnifiedTrackerV2.process_frame / finalize)    *)
(*                                                                         *)
(* Coordinates are integer pixels.  Euclidean distances that the code      *)
(* compares or sorts are represented by four times their square (Dist4),   *)
(* so that the rest-zone bonus "distance *= 0.5" stays an exact integer    *)
(* (the square of half a distance is a quarter of the square).  Distances  *)
(* the code adds up (displacement) are integer square roots, exact on the  *)
(* centroids the inputs are drawn from.                                    *)
(***************************************************************************)
EXTENDS Integers, Sequences, FiniteSets, TLC

\* ---------------------------------------------------------------- bounds
MaxFrames == 4

\* The longest list of blobs of one colour in a frame.
MaxBlobs == 2

\* The longest list of detections of one source in a frame.
MaxDets == 2

\* The longest position history given to the feature extractor.
MaxPositions == 4

\* ------------------------------------------------------ program constants
DefaultRestRadius == 100
EnterRestRadius == 100
RobustExpandStep == 10
UnifiedExpansionRate == 2
ScoreIouWeight == 7
ScoreDistWeight == 3
MotionConf == 70
RestThreshold == 2
DefaultBurstThreshold == 5

\* None where a position is expected, and where a class name is expected.
None == <<>>

NoClass == "None"

\* ------------------------------------------------------------ parameters
RobustTrackingParams(max_skip, init_r, max_r) ==
  [max_distance |-> 60, max_skip_frames |-> max_skip,
   initial_rest_radius |-> init_r, max_rest_radius |-> max_r,
   rest_expand_rate |-> 10,
   min_track_length |-> 2, min_displacement |-> 10,
   min_speed |-> 1, max_speed |-> 30]

UnifiedTrackingParams(max_skip, init_r, max_r) ==
  [max_distance |-> 60, max_frames_without_detection |-> max_skip,
   min_track_length |-> 2, min_displacement |-> 10,
   min_speed |-> 1, max_speed |-> 50,
   initial_rest_radius |-> init_r, max_rest_radius |-> max_r]

\* The second setting keeps the shipped min_track_length of 5.
RobustParamChoices ==
  { RobustTrackingParams(1, 100, 200),
    [RobustTrackingParams(2, 50, 80) EXCEPT !.min_track_length = 5] }

UnifiedParamChoices ==
  { UnifiedTrackingParams(1, 100, 200),
    [UnifiedTrackingParams(2, 50, 51) EXCEPT !.min_track_length = 5] }

\* The skip-frame budget of the running engine.
SkipBudget(eng, p) ==
  IF eng = "robust" THEN p.max_skip_frames ELSE p.max_frames_without_detection

\* ---------------------------------------------------------------- inputs
\* Centroids with pairwise integer distances: |AB| = 50, |BF| = 184, |AF| = 226.
PtA == <<0, 0>>
PtB == <<30, 40>>
PtF == <<30, 224>>

OrganismCandidate(c, bb, a, ty) ==
  [centroid |-> c, bbox |-> bb, total_area |-> a, candidate_type |-> ty]

CandidatePool ==
  << OrganismCandidate(PtA, <<0, 0, 4, 4>>, 16, "dark_only"),
     OrganismCandidate(PtB, <<28, 38, 4, 6>>, 24, "bright_only"),
     OrganismCandidate(PtF, <<26, 220, 8, 8>>, 64, "coupled") >>

UnifiedDetection(f, c, bb, conf, src, cls) ==
  [frame_idx |-> f, bbox |-> bb, centroid |-> c, area |-> bb[3] * bb[4],
   unified_conf |-> conf, source |-> src, rtdetr_class |-> cls]

\* Confidences are in percent.
DetectionPool(f) ==
  << UnifiedDetection(f, PtA, <<0, 0, 4, 4>>, 35, "motion", NoClass),
     UnifiedDetection(f, PtB, <<28, 38, 4, 6>>, 90, "fused", "fish"),
     UnifiedDetection(f, PtF, <<26, 220, 8, 8>>, 56, "rtdetr", "crab") >>

\* The detection lists of a frame, as indices into the pool: no detection,
\* one detection, the same place twice, two near places in both orders, a
\* near and a far place.
FrameShapes ==
  { <<>>, <<1>>, <<2>>, <<3>>, <<1, 1>>, <<1, 2>>, <<2, 1>>, <<1, 3>> }

FrameInputs(pool) ==
  { [i \in DOMAIN shape |-> pool[shape[i]]] : shape \in FrameShapes }

\* Two detections of one place from different sources, the appearance-only
\* one first in the list: the fuser keeps the order of the appearance
\* detections, and the first of two with one centre can be left alone (a
\* small box that overlaps no motion candidate) while the second is fused.
TiedDetections(f) ==
  { << UnifiedDetection(f, PtB, <<28, 38, 4, 4>>, 56, "rtdetr", "crab"),
       DetectionPool(f)[2] >> }

UnifiedFrameInputs(f) == FrameInputs(DetectionPool(f)) \cup TiedDetections(f)

\* --------------------------------------------------------------- helpers
Abs(x) == IF x < 0 THEN -x ELSE x

Min(a, b) == IF a <= b THEN a ELSE b

SqDist(p, q) == (p[1] - q[1]) * (p[1] - q[1]) + (p[2] - q[2]) * (p[2] - q[2])

\* Euclidean distance np.sqrt(dx**2 + dy**2), exact on the input centroids.
Distance(p, q) ==
  CHOOSE r \in 0..(Abs(p[1] - q[1]) + Abs(p[2] - q[2])) : r * r = SqDist(p, q)

RECURSIVE SumSeq(_)
SumSeq(s) == IF s = <<>> THEN 0 ELSE Head(s) + SumSeq(Tail(s))

Last(s) == s[Len(s)]

\* ------------------------------------------------------------ RobustTrack
RobustTrack(id) ==
  [track_id |-> id, positions |-> <<>>, frames |-> <<>>, bboxes |-> <<>>,
   areas |-> <<>>, candidate_types |-> <<>>, last_seen_frame |-> 0,
   frames_since_detection |-> 0, is_resting |-> FALSE,
   rest_zone_center |-> None, rest_zone_radius |-> DefaultRestRadius,
   is_valid |-> FALSE]

\* Mutant: update forgets to reset frames_since_detection.
RobustUpdate_NoReset(t, candidate, f) ==
  [t EXCEPT !.frames = Append(@, f),
            !.positions = Append(@, candidate.centroid),
            !.bboxes = Append(@, candidate.bbox),
            !.areas = Append(@, candidate.total_area),
            !.candidate_types = Append(@, candidate.candidate_type),
            !.last_seen_frame = f,
            !.is_resting = FALSE,
            !.rest_zone_center = None]

\* Mutant: update starts the frame history over instead of appending to it.
RobustUpdate_ReplacesHistory(t, candidate, f) ==
  [t EXCEPT !.frames = <<f>>,
            !.positions = Append(@, candidate.centroid),
            !.bboxes = Append(@, candidate.bbox),
            !.areas = Append(@, candidate.total_area),
            !.candidate_types = Append(@, candidate.candidate_type),
            !.last_seen_frame = f,
            !.frames_since_detection = 0,
            !.is_resting = FALSE,
            !.rest_zone_center = None]

\* Mutant: update leaves the track resting.
RobustUpdate_KeepsResting(t, candidate, f) ==
  [t EXCEPT !.frames = Append(@, f),
            !.positions = Append(@, candidate.centroid),
            !.bboxes = Append(@, candidate.bbox),
            !.areas = Append(@, candidate.total_area),
            !.candidate_types = Append(@, candidate.candidate_type),
            !.last_seen_frame = f,
            !.frames_since_detection = 0]

RobustUpdate(t, candidate, f) ==
  [t EXCEPT !.frames = Append(@, f),
            !.positions = Append(@, candidate.centroid),
            !.bboxes = Append(@, candidate.bbox),
            !.areas = Append(@, candidate.total_area),
            !.candidate_types = Append(@, candidate.candidate_type),
            !.last_seen_frame = f,
            !.frames_since_detection = 0,
            !.is_resting = FALSE,
            !.rest_zone_center = None]

RobustLength(t) == Len(t.frames)

RobustTotalDuration(t) ==
  IF Len(t.frames) = 0 THEN 0
  ELSE t.frames[Len(t.frames)] - t.frames[1] + 1

\* Mutant: entering rest mode does not record the rest zone's centre.
RobustEnterRestMode_NoCenter(t) ==
  [t EXCEPT !.is_resting = TRUE,
            !.rest_zone_radius = EnterRestRadius]

RobustEnterRestMode(t) ==
  [t EXCEPT !.is_resting = TRUE,
            !.rest_zone_center =
               IF t.positions # <<>> THEN Last(t.positions) ELSE @,
            !.rest_zone_radius = EnterRestRadius]

RobustExpandRestZone(t, max_radius) ==
  [t EXCEPT !.rest_zone_radius = Min(max_radius, @ + RobustExpandStep)]

RobustPredictedPosition(t) ==
  IF t.is_resting /\ t.rest_zone_center # None THEN t.rest_zone_center
  ELSE IF Len(t.positions) >= 2
       THEN LET n == Len(t.positions)
                vx == t.positions[n][1] - t.positions[n - 1][1]
                vy == t.positions[n][2] - t.positions[n - 1][2]
            IN  <<t.positions[n][1] + vx, t.positions[n][2] + vy>>
       ELSE IF t.positions # <<>> THEN Last(t.positions) ELSE <<0, 0>>

RobustDisplacement(t) ==
  IF Len(t.positions) < 2 THEN 0
  ELSE SumSeq([i \in 1..(Len(t.positions) - 1) |->
                 Distance(t.positions[i + 1], t.positions[i])])

\* validate_track; avg_speed = displacement / (len - 1) is compared by
\* cross-multiplication (len >= 2 whenever the comparison is reached with
\* min_track_length >= 2; avg_speed is 0 for shorter tracks).
RobustAvgSpeedLess(t, bound) ==
  IF Len(t.positions) < 2 THEN 0 < bound
  ELSE RobustDisplacement(t) < bound * (Len(t.positions) - 1)

RobustAvgSpeedGreater(t, bound) ==
  IF Len(t.positions) < 2 THEN 0 > bound
  ELSE RobustDisplacement(t) > bound * (Len(t.positions) - 1)

\* Mutant: no upper bound on the speed.
validate_track_NoMaxSpeed(t, p) ==
  IF Len(t.frames) < p.min_track_length THEN FALSE
  ELSE IF RobustDisplacement(t) < p.min_displacement THEN FALSE
  ELSE IF RobustAvgSpeedLess(t, p.min_speed) THEN FALSE
  ELSE TRUE

validate_track(t, p) ==
  IF Len(t.frames) < p.min_track_length THEN FALSE
  ELSE IF RobustDisplacement(t) < p.min_displacement THEN FALSE
  ELSE IF RobustAvgSpeedLess(t, p.min_speed) THEN FALSE
  ELSE IF RobustAvgSpeedGreater(t, p.max_speed) THEN FALSE
  ELSE TRUE

\* ----------------------------------------------------------- UnifiedTrack
UnifiedTrack(id) ==
  [track_id |-> id, positions |-> <<>>, frames |-> <<>>, bboxes |-> <<>>,
   sources |-> <<>>, confidences |-> <<>>, rtdetr_classes |-> <<>>,
   frames_since_detection |-> 0, is_resting |-> FALSE,
   rest_zone_center |-> None, rest_zone_radius |-> DefaultRestRadius]

\* Mutant: update forgets the confidence history.
UnifiedUpdate_NoConfidence(t, detection) ==
  [t EXCEPT !.positions = Append(@, detection.centroid),
            !.frames = Append(@, detection.frame_idx),
            !.bboxes = Append(@, detection.bbox),
            !.sources = Append(@, detection.source),
            !.rtdetr_classes =
               IF detection.rtdetr_class # NoClass
               THEN Append(@, detection.rtdetr_class) ELSE @,
            !.frames_since_detection = 0,
            !.is_resting = FALSE]

UnifiedUpdate(t, detection) ==
  [t EXCEPT !.positions = Append(@, detection.centroid),
            !.frames = Append(@, detection.frame_idx),
            !.bboxes = Append(@, detection.bbox),
            !.sources = Append(@, detection.source),
            !.confidences = Append(@, detection.unified_conf),
            !.rtdetr_classes =
               IF detection.rtdetr_class # NoClass
               THEN Append(@, detection.rtdetr_class) ELSE @,
            !.frames_since_detection = 0,
            !.is_resting = FALSE]

UnifiedEnterRestMode(t, initial_radius) ==
  [t EXCEPT !.is_resting = TRUE,
            !.rest_zone_center = Last(t.positions),
            !.rest_zone_radius = initial_radius]

UnifiedExpandRestZone(t, max_radius) ==
  [t EXCEPT !.rest_zone_radius = Min(@ + UnifiedExpansionRate, max_radius)]

UnifiedPredictedPosition(t) ==
  IF Len(t.positions) < 2
  THEN IF t.positions # <<>> THEN Last(t.positions) ELSE <<0, 0>>
  ELSE LET n == Len(t.positions)
           dx == t.positions[n][1] - t.positions[n - 1][1]
           dy == t.positions[n][2] - t.positions[n - 1][2]
       IN  <<t.positions[n][1] + dx, t.positions[n][2] + dy>>

UnifiedDisplacement(t) ==
  IF Len(t.positions) < 2 THEN 0
  ELSE Distance(Last(t.positions), t.positions[1])

\* Sum of the step distances; avg_speed is this over (len - 1).
UnifiedTotalDist(t) ==
  SumSeq([i \in 1..(Len(t.positions) - 1) |->
            Distance(t.positions[i + 1], t.positions[i])])

UnifiedIsValid(t, p) ==
  /\ Len(t.positions) >= p.min_track_length
  /\ UnifiedDisplacement(t) >= p.min_displacement
  /\ IF Len(t.positions) < 2
     THEN p.min_speed <= 0 /\ 0 <= p.max_speed
     ELSE /\ p.min_speed * (Len(t.positions) - 1) <= UnifiedTotalDist(t)
          /\ UnifiedTotalDist(t) <= p.max_speed * (Len(t.positions) - 1)

\* --------------------------------------------- association: shared shapes
Range(s) == { s[i] : i \in DOMAIN s }

\* Mutant: the rest-zone bonus is never applied.
AdjustedDist4_NoRestBonus(centroid, t, prediction) == 4 * SqDist(centroid, prediction)

\* Four times the squared entry of the distance matrix after the rest-zone
\* adjustment: the distance to the prediction, halved when the track is
\* resting and the detection lies inside its rest zone.
AdjustedDist4(centroid, t, prediction) ==
  IF /\ t.is_resting
     /\ t.rest_zone_center # None
     /\ SqDist(centroid, t.rest_zone_center)
          <= t.rest_zone_radius * t.rest_zone_radius
  THEN SqDist(centroid, prediction)
  ELSE 4 * SqDist(centroid, prediction)

\* max_dist of a pair: the rest-zone radius for a resting track.
MaxDistFor(t, max_distance) ==
  IF t.is_resting THEN t.rest_zone_radius ELSE max_distance

WithinMaxDist(d4, max_dist) == d4 <= 4 * max_dist * max_dist

\* cdist(XA, XB) is defined on two non-empty lists of points: np.array of an
\* empty list is one-dimensional, and cdist raises ValueError on it.
CdistDefined(XA, XB) == XA # <<>> /\ XB # <<>>

\* Mutant: the pair list is left in the order it was built.
SortPairs_Unsorted(pairs) == pairs

\* Mutant: the sort puts a pair before the earlier pairs of equal distance.
RECURSIVE SortPairs_TiesReversed(_)
SortPairs_TiesReversed(pairs) ==
  IF Len(pairs) <= 1 THEN pairs
  ELSE LET init == SortPairs_TiesReversed(SubSeq(pairs, 1, Len(pairs) - 1))
           x == pairs[Len(pairs)]
           k == Cardinality({ i \in DOMAIN init : init[i].d < x.d })
       IN  SubSeq(init, 1, k) \o <<x>> \o SubSeq(init, k + 1, Len(init))

\* pairs.sort(key=lambda x: x[2]): a stable sort by distance.
RECURSIVE SortPairs(_)
SortPairs(pairs) ==
  IF Len(pairs) <= 1 THEN pairs
  ELSE LET init == SortPairs(SubSeq(pairs, 1, Len(pairs) - 1))
           x == pairs[Len(pairs)]
           k == Cardinality({ i \in DOMAIN init : init[i].d <= x.d })
       IN  SubSeq(init, 1, k) \o <<x>> \o SubSeq(init, k + 1, Len(init))

\* Indices of a list in ascending order, restricted to a set.
RECURSIVE IndicesIn(_, _)
IndicesIn(n, S) ==
  IF n = 0 THEN <<>>
  ELSE IF n \in S THEN Append(IndicesIn(n - 1, S), n) ELSE IndicesIn(n - 1, S)

\* ------------------------------------------ match_candidates_to_tracks
\* A track of the no-candidates branch: aged, then rested or expanded when
\* still within the budget.
RobustMissedNoCandidates(t, p) ==
  LET aged == [t EXCEPT !.frames_since_detection = @ + 1]
  IN  IF aged.frames_since_detection <= p.max_skip_frames
      THEN IF ~aged.is_resting THEN RobustEnterRestMode(aged)
           ELSE RobustExpandRestZone(aged, p.max_rest_radius)
      ELSE aged

\* Mutant: the matching branch rests an unmatched track but never expands
\* its rest zone.
RobustMissedUnmatched_NoExpand(t, p) ==
  LET aged == [t EXCEPT !.frames_since_detection = @ + 1]
  IN  IF aged.frames_since_detection <= p.max_skip_frames /\ ~aged.is_resting
      THEN RobustEnterRestMode(aged)
      ELSE aged

\* An unmatched track of the matching branch.
RobustMissedUnmatched(t, p) ==
  LET aged == [t EXCEPT !.frames_since_detection = @ + 1]
  IN  IF aged.frames_since_detection <= p.max_skip_frames
      THEN IF ~aged.is_resting THEN RobustEnterRestMode(aged)
           ELSE RobustExpandRestZone(aged, p.max_rest_radius)
      ELSE aged

\* Mutant: the budget is exclusive.
RobustKept_Exclusive(t, p) == t.frames_since_detection < p.max_skip_frames

\* Mutant: a track that exceeded the budget stays in the active list.
RobustKept_NeverDropped(t, p) == TRUE

\* Whether a missed track is appended to updated_tracks.
RobustKept(t, p) == t.frames_since_detection <= p.max_skip_frames

\* unmatched: the candidates no pair claimed, in list order.
\* Mutant: every candidate is returned as unmatched.
RobustUnmatched_All(candidates, matched_candidates) ==
  IndicesIn(Len(candidates), DOMAIN candidates)

RobustUnmatched(candidates, matched_candidates) ==
  IndicesIn(Len(candidates), DOMAIN candidates \ matched_candidates)

\* The candidate pairs, candidate-major, that pass the distance cap.
RobustPairs(candidates, tracks, p) ==
  LET nc == Len(candidates)
      nt == Len(tracks)
      all == [k \in 1..(nc * nt) |->
                LET c == ((k - 1) \div nt) + 1
                    t == ((k - 1) % nt) + 1
                IN  [c |-> c, t |-> t,
                     d |-> AdjustedDist4(candidates[c].centroid, tracks[t],
                                         RobustPredictedPosition(tracks[t]))]]
      Near(x) == WithinMaxDist(x.d, MaxDistFor(tracks[x.t], p.max_distance))
  IN  SelectSeq(all, Near)

\* Mutant: the greedy loop does not check that the track is still free.
RobustAcceptPair_TrackNotChecked(st, pair, candidates, f) ==
  IF pair.c \notin st.matched_candidates
  THEN [tracks |-> [st.tracks EXCEPT
                      ![pair.t] = RobustUpdate(@, candidates[pair.c], f)],
        matched_candidates |-> st.matched_candidates \cup {pair.c},
        matched_tracks |-> st.matched_tracks \cup {pair.t},
        accepted |-> Append(st.accepted, <<pair.c, pair.t>>)]
  ELSE st

\* One pair of the greedy loop.
RobustAcceptPair(st, pair, candidates, f) ==
  IF pair.c \notin st.matched_candidates /\ pair.t \notin st.matched_tracks
  THEN [tracks |-> [st.tracks EXCEPT
                      ![pair.t] = RobustUpdate(@, candidates[pair.c], f)],
        matched_candidates |-> st.matched_candidates \cup {pair.c},
        matched_tracks |-> st.matched_tracks \cup {pair.t},
        accepted |-> Append(st.accepted, <<pair.c, pair.t>>)]
  ELSE st

\* Mutant: the greedy loop stops after the first pair of the list.
RobustGreedy_FirstPairOnly(pairs, st, candidates, f) ==
  IF pairs = <<>> THEN st
  ELSE RobustAcceptPair(st, Head(pairs), candidates, f)

RECURSIVE RobustGreedy(_, _, _, _)
RobustGreedy(pairs, st, candidates, f) ==
  IF pairs = <<>> THEN st
  ELSE RobustGreedy(Tail(pairs), RobustAcceptPair(st, Head(pairs), candidates, f),
                    candidates, f)

\* Result: tracks = the argument list after the in-place mutations,
\* updated_tracks = the returned list as indices into it, unmatched = the
\* returned candidates as indices, accepted = the (candidate, track) pairs,
\* pairs = the sorted pair list the greedy loop went through,
\* raised = whether the call ended in an exception instead of returning.
match_candidates_to_tracks(candidates, tracks, f, p) ==
  IF tracks = <<>>
  THEN [tracks |-> tracks, updated_tracks |-> <<>>,
        unmatched |-> RobustUnmatched(candidates, {}),
        accepted |-> <<>>, pairs |-> <<>>, raised |-> FALSE]
  ELSE IF candidates = <<>>
  THEN LET after == [i \in DOMAIN tracks |->
                       RobustMissedNoCandidates(tracks[i], p)]
       IN  [tracks |-> after,
            updated_tracks |->
              IndicesIn(Len(tracks),
                        { i \in DOMAIN tracks : RobustKept(after[i], p) }),
            unmatched |-> <<>>,
            accepted |-> <<>>, pairs |-> <<>>, raised |-> FALSE]
  ELSE LET pairs == SortPairs(RobustPairs(candidates, tracks, p))
           st == RobustGreedy(pairs,
                              [tracks |-> tracks, matched_candidates |-> {},
                               matched_tracks |-> {}, accepted |-> <<>>],
                              candidates, f)
           after == [i \in DOMAIN tracks |->
                       IF i \in st.matched_tracks THEN st.tracks[i]
                       ELSE RobustMissedUnmatched(st.tracks[i], p)]
           keptUnmatched ==
             { i \in DOMAIN tracks :
                 i \notin st.matched_tracks /\ RobustKept(after[i], p) }
       IN  [tracks |-> after,
            updated_tracks |->
              IndicesIn(Len(tracks), keptUnmatched)
                \o IndicesIn(Len(tracks), st.matched_tracks),
            unmatched |-> RobustUnmatched(candidates, st.matched_candidates),
            accepted |-> st.accepted,
            pairs |-> pairs,
            raised |-> ~CdistDefined(candidates, tracks)]

\* ------------------------------------------ match_detections_to_tracks
SourcePriority(source) ==
  CASE source = "fused" -> 0
    [] source = "rtdetr" -> 1
    [] source = "reinforced" -> 2
    [] source = "motion" -> 3

\* Mutant: the detections are left in the order given.
SortBySource_Unsorted(detections) == detections

\* sorted(detections, key=source priority): a stable sort.
RECURSIVE SortBySource(_)
SortBySource(detections) ==
  IF Len(detections) <= 1 THEN detections
  ELSE LET init == SortBySource(SubSeq(detections, 1, Len(detections) - 1))
           x == detections[Len(detections)]
           k == Cardinality({ i \in DOMAIN init :
                  SourcePriority(init[i].source) <= SourcePriority(x.source) })
       IN  SubSeq(init, 1, k) \o <<x>> \o SubSeq(init, k + 1, Len(init))

UnifiedMissedNoDetections(t, p) ==
  LET aged == [t EXCEPT !.frames_since_detection = @ + 1]
  IN  IF aged.frames_since_detection <= p.max_frames_without_detection
      THEN IF ~aged.is_resting
           THEN UnifiedEnterRestMode(aged, p.initial_rest_radius)
           ELSE UnifiedExpandRestZone(aged, p.max_rest_radius)
      ELSE aged

UnifiedMissedUnmatched(t, p) ==
  LET aged == [t EXCEPT !.frames_since_detection = @ + 1]
  IN  IF aged.frames_since_detection <= p.max_frames_without_detection
      THEN IF ~aged.is_resting
           THEN UnifiedEnterRestMode(aged, p.initial_rest_radius)
           ELSE UnifiedExpandRestZone(aged, p.max_rest_radius)
      ELSE aged

UnifiedKept(t, p) == t.frames_since_detection <= p.max_frames_without_detection

\* Mutant: the first unmatched detection is lost.
UnifiedUnmatched_DropsFirst(detections_sorted, matched_detections) ==
  LET u == IndicesIn(Len(detections_sorted),
                     DOMAIN detections_sorted \ matched_detections)
  IN  IF u = <<>> THEN u ELSE Tail(u)

UnifiedUnmatched(detections_sorted, matched_detections) ==
  IndicesIn(Len(detections_sorted), DOMAIN detections_sorted \ matched_detections)

UnifiedPairs(detections_sorted, tracks, p) ==
  LET nd == Len(detections_sorted)
      nt == Len(tracks)
      all == [k \in 1..(nd * nt) |->
                LET c == ((k - 1) \div nt) + 1
                    t == ((k - 1) % nt) + 1
                IN  [c |-> c, t |-> t,
                     d |-> AdjustedDist4(detections_sorted[c].centroid, tracks[t],
                                         UnifiedPredictedPosition(tracks[t]))]]
      Near(x) == WithinMaxDist(x.d, MaxDistFor(tracks[x.t], p.max_distance))
  IN  SelectSeq(all, Near)

UnifiedAcceptPair(st, pair, detections_sorted) ==
  IF pair.c \notin st.matched_detections /\ pair.t \notin st.matched_tracks
  THEN [tracks |-> [st.tracks EXCEPT
                      ![pair.t] = UnifiedUpdate(@, detections_sorted[pair.c])],
        matched_detections |-> st.matched_detections \cup {pair.c},
        matched_tracks |-> st.matched_tracks \cup {pair.t},
        accepted |-> Append(st.accepted, <<pair.c, pair.t>>)]
  ELSE st

RECURSIVE UnifiedGreedy(_, _, _)
UnifiedGreedy(pairs, st, detections_sorted) ==
  IF pairs = <<>> THEN st
  ELSE UnifiedGreedy(Tail(pairs),
                     UnifiedAcceptPair(st, Head(pairs), detections_sorted),
                     detections_sorted)

\* Result as for match_candidates_to_tracks; detections = the list the
\* indices of unmatched and accepted refer to (the sorted one when sorted).
match_detections_to_tracks(detections, tracks, p) ==
  IF tracks = <<>>
  THEN [tracks |-> tracks, updated_tracks |-> <<>>,
        detections |-> detections,
        unmatched |-> UnifiedUnmatched(detections, {}),
        accepted |-> <<>>, pairs |-> <<>>, raised |-> FALSE]
  ELSE IF detections = <<>>
  THEN LET after == [i \in DOMAIN tracks |->
                       UnifiedMissedNoDetections(tracks[i], p)]
       IN  [tracks |-> after,
            updated_tracks |->
              IndicesIn(Len(tracks),
                        { i \in DOMAIN tracks : UnifiedKept(after[i], p) }),
            detections |-> detections,
            unmatched |-> <<>>,
            accepted |-> <<>>, pairs |-> <<>>, raised |-> FALSE]
  ELSE LET detections_sorted == SortBySource(detections)
           pairs == SortPairs(UnifiedPairs(detections_sorted, tracks, p))
           st == UnifiedGreedy(
                   pairs,
                   [tracks |-> tracks, matched_detections |-> {},
                    matched_tracks |-> {}, accepted |-> <<>>],
                   detections_sorted)
           after == [i \in DOMAIN tracks |->
                       IF i \in st.matched_tracks THEN st.tracks[i]
                       ELSE UnifiedMissedUnmatched(st.tracks[i], p)]
       IN  [tracks |-> after,
            updated_tracks |->
              IndicesIn(Len(tracks),
                        { i \in DOMAIN tracks :
                            i \in st.matched_tracks \/ UnifiedKept(after[i], p) }),
            detections |-> detections_sorted,
            unmatched |-> UnifiedUnmatched(detections_sorted, st.matched_detections),
            accepted |-> st.accepted,
            pairs |-> pairs,
            raised |-> ~CdistDefined(detections_sorted, tracks)]

\* ------------------------------------------ merge_blobs_into_candidates
MergeParams(radius) == [merge_radius |-> radius, min_separation |-> 10]

MergeParamChoices == { MergeParams(40), MergeParams(80) }

Blob(c, bb, a) == [centroid |-> c, bbox |-> bb, area |-> a]

\* Dark blobs: two that lie 40 from the first bright blob, and a far one.
DarkBlobPool ==
  { Blob(<<0, 0>>, <<-4, -4, 8, 8>>, 10),
    Blob(<<80, 0>>, <<74, -2, 12, 4>>, 30),
    Blob(<<0, 200>>, <<-2, 196, 4, 8>>, 10) }

\* Bright blobs: two that lie 40 from the first dark blob, one 24 from it,
\* and a far one.
BrightBlobPool ==
  { Blob(<<40, 0>>, <<34, -6, 12, 12>>, 30),
    Blob(<<0, 40>>, <<-6, 34, 12, 12>>, 30),
    Blob(<<0, 24>>, <<-2, 20, 4, 8>>, 10),
    Blob(<<200, 200>>, <<196, 196, 8, 8>>, 30) }

\* The lists of at most n elements of a set.
SeqsUpTo(S, n) == UNION { [1..k -> S] : k \in 0..n }

Max(a, b) == IF a >= b THEN a ELSE b

\* A quotient the inputs make exact; undefined where it would not be.
ExactDiv(n, d) == LET q == n \div d IN CASE q * d = n -> q

\* Mutant: blobs up to twice the radius apart couple.
WithinMergeRadius_Doubled(d2, merge_radius) == d2 <= 4 * merge_radius * merge_radius

\* Mutant: only a distance below the radius couples.
WithinMergeRadius_Strict(d2, merge_radius) == d2 < merge_radius * merge_radius

\* distances[d_idx, b_idx] <= params.merge_radius, on squared distances.
WithinMergeRadius(d2, merge_radius) == d2 <= merge_radius * merge_radius

\* The dark-bright pairs within the merge radius, dark index major, with
\* the squared distance as the sort key.
MergePairs(dark_blobs, bright_blobs, params) ==
  LET nb == Len(bright_blobs)
      all == [k \in 1..(Len(dark_blobs) * nb) |->
                LET d_idx == ((k - 1) \div nb) + 1
                    b_idx == ((k - 1) % nb) + 1
                IN  [dk |-> d_idx, br |-> b_idx,
                     d |-> SqDist(dark_blobs[d_idx].centroid,
                                  bright_blobs[b_idx].centroid)]]
  IN  SelectSeq(all, LAMBDA pr : WithinMergeRadius(pr.d, params.merge_radius))

\* The candidate of a coupled pair: area-weighted centroid, union box.
CoupledCandidate(dark_blob, bright_blob, f) ==
  LET total_area == dark_blob.area + bright_blob.area
      cx == ExactDiv(dark_blob.centroid[1] * dark_blob.area
                       + bright_blob.centroid[1] * bright_blob.area, total_area)
      cy == ExactDiv(dark_blob.centroid[2] * dark_blob.area
                       + bright_blob.centroid[2] * bright_blob.area, total_area)
      x1 == Min(dark_blob.bbox[1], bright_blob.bbox[1])
      y1 == Min(dark_blob.bbox[2], bright_blob.bbox[2])
      x2 == Max(dark_blob.bbox[1] + dark_blob.bbox[3],
                bright_blob.bbox[1] + bright_blob.bbox[3])
      y2 == Max(dark_blob.bbox[2] + dark_blob.bbox[4],
                bright_blob.bbox[2] + bright_blob.bbox[4])
  IN  [frame_idx |-> f, centroid |-> <<cx, cy>>,
       bbox |-> <<x1, y1, x2 - x1, y2 - y1>>, total_area |-> total_area,
       dark_blobs |-> <<dark_blob>>, bright_blobs |-> <<bright_blob>>,
       candidate_type |-> "coupled"]

DarkOnlyCandidate(dark_blob, f) ==
  [frame_idx |-> f, centroid |-> dark_blob.centroid, bbox |-> dark_blob.bbox,
   total_area |-> dark_blob.area, dark_blobs |-> <<dark_blob>>,
   bright_blobs |-> <<>>, candidate_type |-> "dark_only"]

BrightOnlyCandidate(bright_blob, f) ==
  [frame_idx |-> f, centroid |-> bright_blob.centroid, bbox |-> bright_blob.bbox,
   total_area |-> bright_blob.area, dark_blobs |-> <<>>,
   bright_blobs |-> <<bright_blob>>, candidate_type |-> "bright_only"]


\* Mutant: a bright blob already coupled is coupled again.
MergeAcceptPair_BrightNotChecked(st, pr, dark_blobs, bright_blobs, f) ==
  IF pr.dk \notin st.used_dark
  THEN [candidates |-> Append(st.candidates,
                             CoupledCandidate(dark_blobs[pr.dk],
                                              bright_blobs[pr.br], f)),
        origin |-> Append(st.origin, [dark |-> {pr.dk}, bright |-> {pr.br}]),
        used_dark |-> st.used_dark \cup {pr.dk},
        used_bright |-> st.used_bright \cup {pr.br},
        raised |-> st.raised]
  ELSE st

\* One turn of the greedy loop over the sorted pairs.  origin[i] names the
\* input indices candidate i was built from.
MergeAcceptPair(st, pr, dark_blobs, bright_blobs, f) ==
  IF pr.dk \notin st.used_dark /\ pr.br \notin st.used_bright
  THEN [candidates |-> Append(st.candidates,
                             CoupledCandidate(dark_blobs[pr.dk],
                                              bright_blobs[pr.br], f)),
        origin |-> Append(st.origin, [dark |-> {pr.dk}, bright |-> {pr.br}]),
        used_dark |-> st.used_dark \cup {pr.dk},
        used_bright |-> st.used_bright \cup {pr.br},
        raised |-> st.raised]
  ELSE st

\* Mutant: the greedy loop ends after the first pair.
MergeGreedy_FirstPairOnly(pairs, st, dark_blobs, bright_blobs, f) ==
  IF pairs = <<>> THEN st
  ELSE MergeAcceptPair(st, Head(pairs), dark_blobs, bright_blobs, f)

RECURSIVE MergeGreedy(_, _, _, _, _)
MergeGreedy(pairs, st, dark_blobs, bright_blobs, f) ==
  IF pairs = <<>> THEN st
  ELSE MergeGreedy(Tail(pairs),
                   MergeAcceptPair(st, Head(pairs), dark_blobs, bright_blobs, f),
                   dark_blobs, bright_blobs, f)

\* Mutant: the distance matrix is computed whatever the lists hold.
MergeCoupled_Unguarded(dark_blobs, bright_blobs, f, params) ==
  MergeGreedy(SortPairs(MergePairs(dark_blobs, bright_blobs, params)),
              [candidates |-> <<>>, origin |-> <<>>,
               used_dark |-> {}, used_bright |-> {},
               raised |-> ~CdistDefined(dark_blobs, bright_blobs)],
              dark_blobs, bright_blobs, f)

\* The coupled candidates: none unless both lists are non-empty.  raised =
\* whether the distance matrix was asked for where cdist is undefined.
MergeCoupled(dark_blobs, bright_blobs, f, params) ==
  LET st0 == [candidates |-> <<>>, origin |-> <<>>,
              used_dark |-> {}, used_bright |-> {}, raised |-> FALSE]
  IN  IF dark_blobs # <<>> /\ bright_blobs # <<>>
      THEN MergeGreedy(SortPairs(MergePairs(dark_blobs, bright_blobs, params)),
                       [st0 EXCEPT !.raised = ~CdistDefined(dark_blobs, bright_blobs)],
                       dark_blobs, bright_blobs, f)
      ELSE st0

\* Result: candidates = the returned list (coupled, then dark_only, then
\* bright_only, each in input order), origin = the blob indices of each,
\* raised = whether the call ended in an exception instead of returning.
merge_blobs_into_candidates(dark_blobs, bright_blobs, f, params) ==
  LET st == MergeCoupled(dark_blobs, bright_blobs, f, params)
      free_dark == IndicesIn(Len(dark_blobs), DOMAIN dark_blobs \ st.used_dark)
      free_bright == IndicesIn(Len(bright_blobs),
                               DOMAIN bright_blobs \ st.used_bright)
  IN  [candidates |->
         st.candidates
           \o [i \in DOMAIN free_dark |->
                 DarkOnlyCandidate(dark_blobs[free_dark[i]], f)]
           \o [i \in DOMAIN free_bright |->
                 BrightOnlyCandidate(bright_blobs[free_bright[i]], f)],
       origin |->
         st.origin
           \o [i \in DOMAIN free_dark |-> [dark |-> {free_dark[i]}, bright |-> {}]]
           \o [i \in DOMAIN free_bright |->
                 [dark |-> {}, bright |-> {free_bright[i]}]],
       raised |-> st.raised]

\* ------------------------------------------------------- fuse_detections
\* Weights and thresholds are in tenths, confidences in percent, distances
\* and thresholds on distances in pixels; unified_conf is in units of 1/10000.
FusionParams(iou_thr, dist_thr) ==
  [iou_threshold |-> iou_thr, distance_threshold |-> dist_thr,
   rtdetr_weight |-> 7, motion_weight |-> 3, both_detected_boost |-> 12,
   motion_only_base_conf |-> 5]

FusionParamChoices == { FusionParams(3, 50), FusionParams(5, 10) }

RTDETRDetection(bb, conf, cls) ==
  [bbox |-> bb, centroid |-> <<bb[1] + bb[3] \div 2, bb[2] + bb[4] \div 2>>,
   confidence |-> conf, class_name |-> cls]

RTDETRPool ==
  { RTDETRDetection(<<0, 0, 20, 20>>, 90, "fish"),
    RTDETRDetection(<<100, 0, 20, 20>>, 50, "crab") }

\* Motion candidates: two overlapping the first appearance box (IoU 1/2 at
\* distance 5, IoU 1/3 at distance 10), one off it at distance exactly 50,
\* one overlapping the second appearance box (IoU 2/3 at distance 4).
MotionPool ==
  { OrganismCandidate(<<10, 5>>, <<0, 0, 20, 10>>, 180, "dark_only"),
    OrganismCandidate(<<20, 10>>, <<10, 0, 20, 20>>, 350, "coupled"),
    OrganismCandidate(<<40, 50>>, <<38, 48, 4, 4>>, 12, "bright_only"),
    OrganismCandidate(<<114, 10>>, <<104, 0, 20, 20>>, 300, "coupled") }

RECURSIVE GCD(_, _)
GCD(a, b) == IF b = 0 THEN a ELSE GCD(b, a % b)

\* A non-negative ratio, kept as numerator and denominator in lowest terms.
Ratio(n, d) == [num |-> n \div GCD(n, d), den |-> d \div GCD(n, d)]

RatioGreater(a, b) == a.num * b.den > b.num * a.den

\* Intersection over union of two boxes (x, y, w, h).
calculate_iou(bbox1, bbox2) ==
  LET xi1 == Max(bbox1[1], bbox2[1])
      yi1 == Max(bbox1[2], bbox2[2])
      xi2 == Min(bbox1[1] + bbox1[3], bbox2[1] + bbox2[3])
      yi2 == Min(bbox1[2] + bbox1[4], bbox2[2] + bbox2[4])
      inter_area == (xi2 - xi1) * (yi2 - yi1)
      union_area == bbox1[3] * bbox1[4] + bbox2[3] * bbox2[4] - inter_area
  IN  IF xi2 <= xi1 \/ yi2 <= yi1 THEN Ratio(0, 1)
      ELSE IF union_area > 0 THEN Ratio(inter_area, union_area)
      ELSE Ratio(0, 1)

\* iou >= params.iou_threshold or dist <= params.distance_threshold.
FuseEligible(rtdetr_det, motion_cand, params) ==
  LET iou == calculate_iou(rtdetr_det.bbox, motion_cand.bbox)
  IN  \/ iou.num * 10 >= params.iou_threshold * iou.den
      \/ SqDist(rtdetr_det.centroid, motion_cand.centroid)
           <= params.distance_threshold * params.distance_threshold

\* score = iou * 0.7 + max(0, 1 - dist/distance_threshold) * 0.3, as a ratio.
FuseScore(rtdetr_det, motion_cand, params) ==
  LET iou == calculate_iou(rtdetr_det.bbox, motion_cand.bbox)
      dt == params.distance_threshold
      closeness ==
        IF SqDist(rtdetr_det.centroid, motion_cand.centroid) >= dt * dt THEN 0
        ELSE dt - Distance(rtdetr_det.centroid, motion_cand.centroid)
  IN  Ratio(ScoreIouWeight * iou.num * dt + ScoreDistWeight * closeness * iou.den,
            10 * iou.den * dt)


\* Mutant: a motion candidate already consumed can be matched again.
FuseCandidateFree_Always(i, used_motion_indices) == TRUE

\* if i in used_motion_indices: continue.
FuseCandidateFree(i, used_motion_indices) == i \notin used_motion_indices

\* The inner loop over the motion candidates from index i on: best is
\* [idx, score], with idx = 0 for best_match_idx = None.
RECURSIVE FuseBestMatch(_, _, _, _, _, _)
FuseBestMatch(i, best, rtdetr_det, motion_candidates, used_motion_indices, params) ==
  IF i > Len(motion_candidates) THEN best
  ELSE LET score == FuseScore(rtdetr_det, motion_candidates[i], params)
           better ==
             /\ FuseCandidateFree(i, used_motion_indices)
             /\ FuseEligible(rtdetr_det, motion_candidates[i], params)
             /\ RatioGreater(score, best.score)
       IN  FuseBestMatch(i + 1,
                         IF better THEN [idx |-> i, score |-> score] ELSE best,
                         rtdetr_det, motion_candidates, used_motion_indices,
                         params)

\* Mutant: the fused confidence is not capped.
FusedDetection_Uncapped(rtdetr_det, motion_cand, f, params) ==
  [frame_idx |-> f, bbox |-> rtdetr_det.bbox, centroid |-> rtdetr_det.centroid,
   area |-> rtdetr_det.bbox[3] * rtdetr_det.bbox[4],
   rtdetr_conf |-> rtdetr_det.confidence, motion_conf |-> MotionConf,
   unified_conf |->
     (rtdetr_det.confidence * params.rtdetr_weight
        + MotionConf * params.motion_weight) * params.both_detected_boost,
   source |-> "fused", rtdetr_class |-> rtdetr_det.class_name,
   motion_type |-> motion_cand.candidate_type]

FusedDetection(rtdetr_det, motion_cand, f, params) ==
  [frame_idx |-> f, bbox |-> rtdetr_det.bbox, centroid |-> rtdetr_det.centroid,
   area |-> rtdetr_det.bbox[3] * rtdetr_det.bbox[4],
   rtdetr_conf |-> rtdetr_det.confidence, motion_conf |-> MotionConf,
   unified_conf |->
     Min((rtdetr_det.confidence * params.rtdetr_weight
            + MotionConf * params.motion_weight) * params.both_detected_boost,
         10000),
   source |-> "fused", rtdetr_class |-> rtdetr_det.class_name,
   motion_type |-> motion_cand.candidate_type]

RTDETROnlyDetection(rtdetr_det, f, params) ==
  [frame_idx |-> f, bbox |-> rtdetr_det.bbox, centroid |-> rtdetr_det.centroid,
   area |-> rtdetr_det.bbox[3] * rtdetr_det.bbox[4],
   rtdetr_conf |-> rtdetr_det.confidence, motion_conf |-> 0,
   unified_conf |-> rtdetr_det.confidence * params.rtdetr_weight * 10,
   source |-> "rtdetr", rtdetr_class |-> rtdetr_det.class_name,
   motion_type |-> NoClass]

MotionOnlyDetection(motion_cand, f, params) ==
  [frame_idx |-> f, bbox |-> motion_cand.bbox, centroid |-> motion_cand.centroid,
   area |-> motion_cand.total_area,
   rtdetr_conf |-> 0, motion_conf |-> MotionConf,
   unified_conf |-> params.motion_only_base_conf * MotionConf * 10,
   source |-> "motion", rtdetr_class |-> NoClass,
   motion_type |-> motion_cand.candidate_type]

\* One turn of the loop over the appearance detections.  origin[k] names the
\* input indices output k was built from.
FuseOne(st, r_idx, rtdetr_detections, motion_candidates, f, params) ==
  LET rtdetr_det == rtdetr_detections[r_idx]
      best == FuseBestMatch(1, [idx |-> 0, score |-> Ratio(0, 1)], rtdetr_det,
                            motion_candidates, st.used_motion_indices, params)
  IN  IF best.idx # 0
      THEN [unified |-> Append(st.unified,
                               FusedDetection(rtdetr_det,
                                              motion_candidates[best.idx],
                                              f, params)),
            origin |-> Append(st.origin, [rtdetr |-> {r_idx}, motion |-> {best.idx}]),
            used_motion_indices |-> st.used_motion_indices \cup {best.idx}]
      ELSE [unified |-> Append(st.unified,
                               RTDETROnlyDetection(rtdetr_det, f, params)),
            origin |-> Append(st.origin, [rtdetr |-> {r_idx}, motion |-> {}]),
            used_motion_indices |-> st.used_motion_indices]

RECURSIVE FuseLoop(_, _, _, _, _, _)
FuseLoop(st, r_idx, rtdetr_detections, motion_candidates, f, params) ==
  IF r_idx > Len(rtdetr_detections) THEN st
  ELSE FuseLoop(FuseOne(st, r_idx, rtdetr_detections, motion_candidates, f, params),
                r_idx + 1, rtdetr_detections, motion_candidates, f, params)

\* Result: unified = the returned list (one output per appearance detection
\* in input order, then the unconsumed motion candidates in input order),
\* origin = the input indices of each.
fuse_detections(rtdetr_detections, motion_candidates, f, params) ==
  LET st == FuseLoop([unified |-> <<>>, origin |-> <<>>,
                      used_motion_indices |-> {}],
                     1, rtdetr_detections, motion_candidates, f, params)
      free == IndicesIn(Len(motion_candidates),
                        DOMAIN motion_candidates \ st.used_motion_indices)
  IN  [unified |->
         st.unified \o [i \in DOMAIN free |->
                          MotionOnlyDetection(motion_candidates[free[i]], f, params)],
       origin |->
         st.origin \o [i \in DOMAIN free |-> [rtdetr |-> {}, motion |-> {free[i]}]]]

\* ------------------------------------------------ motion_feature_extractor
\* Speeds are pixels per step (integers on the inputs), means and indices
\* are ratios, a direction is kept as its step vector (atan2(dy, dx) is the
\* angle of it), and a standard deviation by its square.  The two angle
\* statistics mean_direction_change and max_direction_change, which nothing
\* reads, are left out of the metrics.
RatioLess(a, b) == a.num * b.den < b.num * a.den

RatioAdd(a, b) == Ratio(a.num * b.den + b.num * a.den, a.den * b.den)

RatioMin(a, b) == IF RatioLess(b, a) THEN b ELSE a

Zero == Ratio(0, 1)

One == Ratio(1, 1)

RECURSIVE RatioSum(_)
RatioSum(s) == IF s = <<>> THEN Zero ELSE RatioAdd(Head(s), RatioSum(Tail(s)))

RECURSIVE MaxSeq(_)
MaxSeq(s) == IF Len(s) = 1 THEN s[1] ELSE Max(Head(s), MaxSeq(Tail(s)))

RECURSIVE MinSeq(_)
MinSeq(s) == IF Len(s) = 1 THEN s[1] ELSE Min(Head(s), MinSeq(Tail(s)))

\* Positions on a line (steps of 0, 1, 9, 10, 19, 20) and on a triangle with
\* integer sides (10, 20, 24, 26).
AxisPositions == { <<0, 0>>, <<1, 0>>, <<10, 0>>, <<20, 0>> }

TrianglePositions == { <<0, 0>>, <<10, 0>>, <<20, 0>>, <<10, 24>> }

PositionLists ==
  SeqsUpTo(AxisPositions, MaxPositions) \cup SeqsUpTo(TrianglePositions, MaxPositions)

MotionMetrics ==
  [total_frames |-> 0, total_distance |-> 0, displacement |-> 0,
   mean_speed |-> Zero, max_speed |-> 0, min_speed |-> 0, speed_std2 |-> Zero,
   mean_acceleration |-> Zero, max_acceleration |-> 0, acceleration_events |-> 0,
   direction_changes |-> 0, straightness_index |-> Zero,
   rest_count |-> 0, total_rest_frames |-> 0, mean_rest_duration |-> Zero,
   burst_count |-> 0, mean_burst_speed |-> Zero, mean_burst_duration |-> Zero]

calculate_distance(p1, p2) == Distance(p1, p2)

\* angle_difference(a1, a2) > math.pi/4 for the angles of two step vectors:
\* the angle between them is above 45 degrees.
TurnAbove45(u, v) ==
  LET dot == u[1] * v[1] + u[2] * v[2]
  IN  \/ dot < 0
      \/ 2 * dot * dot < (u[1] * u[1] + u[2] * u[2]) * (v[1] * v[1] + v[2] * v[2])

\* The maximal runs of consecutive TRUE entries, as lists of indices, built
\* as the loops over resting and over speeds build them.
\* Mutant: a run that reaches the end of the list is not counted.
RECURSIVE RunsFrom_DropsLastRun(_, _, _, _)
RunsFrom_DropsLastRun(flags, i, current, runs) ==
  IF i > Len(flags) THEN runs
  ELSE IF flags[i] THEN RunsFrom_DropsLastRun(flags, i + 1, Append(current, i), runs)
  ELSE IF current # <<>> THEN RunsFrom_DropsLastRun(flags, i + 1, <<>>, Append(runs, current))
  ELSE RunsFrom_DropsLastRun(flags, i + 1, current, runs)

RECURSIVE RunsFrom(_, _, _, _)
RunsFrom(flags, i, current, runs) ==
  IF i > Len(flags)
  THEN IF current # <<>> THEN Append(runs, current) ELSE runs
  ELSE IF flags[i] THEN RunsFrom(flags, i + 1, Append(current, i), runs)
  ELSE IF current # <<>> THEN RunsFrom(flags, i + 1, <<>>, Append(runs, current))
  ELSE RunsFrom(flags, i + 1, current, runs)

Runs(flags) == RunsFrom(flags, 1, <<>>, <<>>)

\* distances[i] (= speeds[i]) is the length of the step into positions[i+1].
StepDistances(positions) ==
  [i \in 1..(Len(positions) - 1) |-> calculate_distance(positions[i], positions[i + 1])]

TotalDistance_DropsLastStep(positions) ==
  SumSeq(SubSeq(StepDistances(positions), 1, Len(positions) - 2))

TotalDistance(positions) == SumSeq(StepDistances(positions))

\* The step vectors of the steps longer than 0.5, in order.
Directions(positions) ==
  LET moved == IndicesIn(Len(positions) - 1,
                         {i \in 1..(Len(positions) - 1) : 2 * StepDistances(positions)[i] > 1})
  IN  [k \in DOMAIN moved |->
         << positions[moved[k] + 1][1] - positions[moved[k]][1],
            positions[moved[k] + 1][2] - positions[moved[k]][2] >>]

\* s > burst_threshold, with burst_threshold = mean_speed * 1.5 when
\* mean_speed > 0 and 5.0 otherwise; total / m is mean_speed.
IsBurst(s, total, m) ==
  IF total > 0 THEN 2 * m * s > 3 * total ELSE s > DefaultBurstThreshold

extract_motion_metrics(positions) ==
  IF Len(positions) < 2 THEN MotionMetrics
  ELSE
    LET speeds == StepDistances(positions)
        m      == Len(speeds)
        total  == TotalDistance(positions)
        disp   == calculate_distance(positions[1], Last(positions))
        sq     == SumSeq([i \in 1..m |-> speeds[i] * speeds[i]])
        accs   == [i \in 1..(m - 1) |-> Abs(speeds[i + 1] - speeds[i])]
        dirs   == Directions(positions)
        rests  == Runs([i \in 1..m |-> speeds[i] < RestThreshold])
        bursts == Runs([i \in 1..m |-> IsBurst(speeds[i], total, m)])
    IN  [total_frames |-> Len(positions),
         total_distance |-> total,
         displacement |-> disp,
         mean_speed |-> Ratio(total, m),
         max_speed |-> MaxSeq(speeds),
         min_speed |-> MinSeq(speeds),
         speed_std2 |-> Ratio(m * sq - SumSeq(speeds) * SumSeq(speeds), m * m),
         mean_acceleration |->
           IF accs # <<>> THEN Ratio(SumSeq(accs), Len(accs)) ELSE Zero,
         max_acceleration |-> IF accs # <<>> THEN MaxSeq(accs) ELSE 0,
         acceleration_events |->
           Cardinality({i \in DOMAIN accs : accs[i] * Len(accs) > 2 * SumSeq(accs)}),
         direction_changes |->
           Cardinality({i \in 1..(Len(dirs) - 1) : TurnAbove45(dirs[i], dirs[i + 1])}),
         straightness_index |->
           IF total > 0 THEN RatioMin(One, Ratio(disp, total)) ELSE Zero,
         rest_count |-> Len(rests),
         total_rest_frames |-> SumSeq([k \in DOMAIN rests |-> Len(rests[k])]),
         mean_rest_duration |->
           IF rests # <<>>
           THEN Ratio(SumSeq([k \in DOMAIN rests |-> Len(rests[k])]), Len(rests))
           ELSE Zero,
         burst_count |-> Len(bursts),
         mean_burst_speed |->
           IF bursts # <<>>
           THEN LET means == [k \in DOMAIN bursts |->
                                Ratio(SumSeq([j \in DOMAIN bursts[k] |-> speeds[bursts[k][j]]]),
                                      Len(bursts[k]))]
                    sum == RatioSum(means)
                IN  Ratio(sum.num, sum.den * Len(bursts))
           ELSE Zero,
         mean_burst_duration |->
           IF bursts # <<>>
           THEN Ratio(SumSeq([k \in DOMAIN bursts |-> Len(bursts[k])]), Len(bursts))
           ELSE Zero]

RatioMul(a, b) == Ratio(a.num * b.num, a.den * b.den)

\* a / k for an integer k > 0.
RatioOver(a, k) == Ratio(a.num, a.den * k)

\* The five rule conditions of classify_trajectory, as written there.
\* speed_std < mean_speed * 0.5 is compared on the squares.
IsStationaryRule(metrics) ==
  RatioLess(metrics.mean_speed, One) /\ metrics.total_distance < 50

IsDartingRule(metrics) == metrics.burst_count >= 3 /\ metrics.rest_count >= 2

IsLinearRule(metrics) ==
  RatioGreater(metrics.straightness_index, Ratio(7, 10)) /\ metrics.direction_changes < 5

IsCircularRule(metrics) ==
  /\ RatioLess(metrics.straightness_index, Ratio(3, 10))
  /\ RatioLess(RatioMul(metrics.speed_std2, Ratio(4, 1)),
               RatioMul(metrics.mean_speed, metrics.mean_speed))

IsMeanderingRule(metrics) ==
  /\ RatioLess(Ratio(2, 10), metrics.straightness_index)
  /\ RatioLess(metrics.straightness_index, Ratio(7, 10))
  /\ metrics.direction_changes >= 5

classify_trajectory_LinearFirst(metrics) ==
  IF IsLinearRule(metrics) THEN "linear"
  ELSE IF IsStationaryRule(metrics) THEN "stationary"
  ELSE IF IsDartingRule(metrics) THEN "darting"
  ELSE IF IsCircularRule(metrics) THEN "circular"
  ELSE IF IsMeanderingRule(metrics) THEN "meandering"
  ELSE "unknown"

classify_trajectory(metrics) ==
  IF IsStationaryRule(metrics) THEN "stationary"
  ELSE IF IsDartingRule(metrics) THEN "darting"
  ELSE IF IsLinearRule(metrics) THEN "linear"
  ELSE IF IsCircularRule(metrics) THEN "circular"
  ELSE IF IsMeanderingRule(metrics) THEN "meandering"
  ELSE "unknown"

infer_organism_type(metrics, trajectory) ==
  IF trajectory = "stationary" THEN "shellfish"
  ELSE IF /\ RatioLess(metrics.mean_speed, Ratio(3, 1))
          /\ metrics.rest_count < 3
          /\ RatioGreater(metrics.straightness_index, Ratio(3, 10))
  THEN "snail"
  ELSE IF /\ trajectory \in {"meandering", "darting"}
          /\ RatioLess(Ratio(2, 1), metrics.mean_speed)
          /\ RatioLess(metrics.mean_speed, Ratio(15, 1))
          /\ metrics.rest_count >= 2
  THEN "crab"
  ELSE IF \/ RatioGreater(metrics.mean_speed, Ratio(15, 1))
          \/ trajectory = "linear" /\ RatioGreater(metrics.mean_speed, Ratio(8, 1))
  THEN "fish_fast"
  ELSE IF RatioLess(Ratio(5, 1), metrics.mean_speed) /\ RatioLess(metrics.mean_speed, Ratio(15, 1))
  THEN "fish_slow"
  ELSE "unknown"

OrganismConfidence(organism) ==
  CASE organism = "shellfish" -> Ratio(70, 100)
    [] organism = "snail"     -> Ratio(65, 100)
    [] organism = "crab"      -> Ratio(70, 100)
    [] organism = "fish_fast" -> Ratio(75, 100)
    [] organism = "fish_slow" -> Ratio(60, 100)
    [] organism = "unknown"   -> Ratio(40, 100)

BehavioralFeatures ==
  [trajectory_type |-> "unknown", trajectory_confidence |-> Zero,
   inferred_organism |-> "unknown", organism_confidence |-> Zero,
   activity_level |-> Zero, exploration_score |-> Zero, regularity_score |-> Zero,
   is_foraging |-> FALSE, is_fleeing |-> FALSE, is_resting |-> FALSE,
   is_patrolling |-> FALSE]

\* max(0, 1.0 - speed_std / mean_speed) for mean_speed > 0: 0 when the
\* deviation is at least the mean, 1 when it is 0, and otherwise one minus
\* the root of speed_std2 / mean_speed^2, kept as that.
RegularityScore(metrics) ==
  LET mean2 == RatioMul(metrics.mean_speed, metrics.mean_speed)
  IN  IF ~RatioLess(metrics.speed_std2, mean2) THEN Zero
      ELSE IF metrics.speed_std2 = Zero THEN One
      ELSE [one_minus_root_of |->
              Ratio(metrics.speed_std2.num * mean2.den, metrics.speed_std2.den * mean2.num)]

calculate_behavioral_features(metrics, trajectory) ==
  LET organism == infer_organism_type(metrics, trajectory)
  IN  [trajectory_type |-> trajectory,
       trajectory_confidence |-> Ratio(7, 10),
       inferred_organism |-> organism,
       organism_confidence |-> OrganismConfidence(organism),
       activity_level |-> RatioMin(One, RatioOver(metrics.mean_speed, 30)),
       exploration_score |-> RatioMin(One, Ratio(metrics.total_distance, 1000)),
       regularity_score |->
         IF RatioGreater(metrics.mean_speed, Zero) THEN RegularityScore(metrics) ELSE Zero,
       is_foraging |-> trajectory = "meandering" /\ metrics.rest_count >= 2,
       is_fleeing |-> trajectory = "linear" /\ RatioGreater(metrics.mean_speed, Ratio(15, 1)),
       is_resting |-> trajectory = "stationary",
       is_patrolling |-> /\ trajectory = "linear"
                         /\ metrics.direction_changes >= 2
                         /\ RatioLess(metrics.straightness_index, Ratio(5, 10))]

OrganismCode(organism) ==
  CASE organism = "fish_fast" -> Ratio(10, 10)
    [] organism = "fish_slow" -> Ratio(8, 10)
    [] organism = "crab"      -> Ratio(6, 10)
    [] organism = "snail"     -> Ratio(4, 10)
    [] organism = "shellfish" -> Ratio(2, 10)
    [] OTHER                  -> Zero

\* speed_std / 15.0, kept as the root of speed_std2 / 225 unless it is 0.
NormalizedSpeedStd(metrics) ==
  IF metrics.speed_std2 = Zero THEN Zero
  ELSE [root_of |-> RatioOver(metrics.speed_std2, 225)]

create_feature_vector(metrics, features) ==
  << RatioOver(metrics.mean_speed, 30),
     Ratio(metrics.max_speed, 60),
     NormalizedSpeedStd(metrics),
     RatioMin(One, RatioOver(metrics.mean_speed, 20)),
     RatioMin(One, Ratio(metrics.burst_count * 100, Max(1, metrics.total_frames))),
     metrics.straightness_index,
     RatioMin(One, Ratio(metrics.direction_changes, 20)),
     IF metrics.total_distance > 0
     THEN Ratio(metrics.displacement, metrics.total_distance) ELSE Zero,
     RatioMin(One, RatioOver(metrics.mean_acceleration, 10)),
     features.regularity_score,
     RatioMin(One, Ratio(metrics.rest_count, 10)),
     Ratio(metrics.total_rest_frames, Max(1, metrics.total_frames)),
     RatioMin(One, RatioOver(metrics.mean_rest_duration, 30)),
     features.activity_level,
     features.exploration_score,
     features.regularity_score,
     IF features.is_foraging THEN One ELSE Zero,
     OrganismCode(features.inferred_organism),
     RatioMin(One, Ratio(metrics.total_frames, 160)),
     RatioMin(One, Ratio(metrics.total_distance, 2000)) >>

TrackFeatures(track_id, detection_source, frame_range, centroid_history) ==
  [track_id |-> track_id, detection_source |-> detection_source,
   frame_range |-> frame_range, centroid_history |-> centroid_history,
   motion_metrics |-> MotionMetrics, behavioral_features |-> BehavioralFeatures,
   feature_vector |-> <<>>]

process_from_positions(track_id, positions, source) ==
  IF Len(positions) < 2
  THEN TrackFeatures(track_id, source, <<0, Len(positions)>>, positions)
  ELSE
    LET motion_metrics == extract_motion_metrics(positions)
        trajectory_type == classify_trajectory(motion_metrics)
        behavioral_features == calculate_behavioral_features(motion_metrics, trajectory_type)
    IN  [TrackFeatures(track_id, source, <<0, Len(positions)>>, positions)
           EXCEPT !.motion_metrics = motion_metrics,
                  !.behavioral_features = behavioral_features,
                  !.feature_vector = create_feature_vector(motion_metrics, behavioral_features)]

\* ------------------------------------------------------------------ state
VARIABLES
  engine,            \* "robust" (process_video_robust) or "unified" (UnifiedTrackerV2)
  params,            \* tracking_params
  tracks,            \* every track object ever created, by track_id
  active_tracks,     \* the active list, as track ids
  completed_tracks,  \* completed_tracks, as track ids
  all_tracks,        \* finalize's all_tracks, as track ids
  valid_tracks,      \* valid_tracks, as track ids
  next_track_id,
  frame_idx,
  phase,             \* "frames" while the frame loop runs, then "done"
  last,              \* the last frame: its detections and what became of them
  call               \* the last call of a frame stage on its own: inputs, result

vars == <<engine, params, tracks, active_tracks, completed_tracks, all_tracks,
          valid_tracks, next_track_id, frame_idx, phase, last, call>>

NoFrame ==
  [detections |-> <<>>, assigned |-> <<>>, accepted |-> <<>>,
   started |-> <<>>, matched |-> {}, created |-> {}, pairs |-> <<>>,
   raised |-> FALSE]

NoCall == [fn |-> "none"]

Init ==
  /\ engine \in {"robust", "unified"}
  /\ params \in (IF engine = "robust" THEN RobustParamChoices
                                       ELSE UnifiedParamChoices)
  /\ tracks = <<>>
  /\ active_tracks = <<>>
  /\ completed_tracks = <<>>
  /\ all_tracks = <<>>
  /\ valid_tracks = <<>>
  /\ next_track_id = 1
  /\ frame_idx = 0
  /\ phase = "frames"
  /\ last = NoFrame
  /\ call = NoCall

\* The objects of the active list, in list order.
ActiveObjects == [i \in DOMAIN active_tracks |-> tracks[active_tracks[i]]]

IndexInActive(id) == CHOOSE i \in DOMAIN active_tracks : active_tracks[i] = id

\* What the frame did, for the properties: detections as processed,
\* assigned[i] = the id of the track detection i was appended to,
\* started = the active list the frame began with.
FrameRecord(detections, r, newIds) ==
  [detections |-> detections,
   assigned |-> [i \in DOMAIN detections |->
                   { active_tracks[a[2]] : a \in { b \in Range(r.accepted) : b[1] = i } }
                   \cup { newIds[j] : j \in { k \in DOMAIN r.unmatched : r.unmatched[k] = i } }],
   accepted |-> r.accepted,
   started |-> active_tracks,
   matched |-> { active_tracks[a[2]] : a \in Range(r.accepted) },
   created |-> Range(newIds),
   pairs |-> r.pairs,
   raised |-> r.raised]

\* The ids of the tracks a frame creates, one per unmatched detection in list
\* order: each takes the counter's value and the counter moves on by one.
NewTrackIds_Reused(next_id, unmatched) == [j \in DOMAIN unmatched |-> next_id]

NewTrackIds(next_id, unmatched) == [j \in DOMAIN unmatched |-> next_id + j - 1]

\* One iteration of the frame loop of process_video_robust, from the
\* candidates of the frame on.
RobustFrame ==
  /\ engine = "robust" /\ phase = "frames" /\ frame_idx < MaxFrames
  /\ \E candidates \in FrameInputs(CandidatePool) :
       LET r == match_candidates_to_tracks(candidates, ActiveObjects,
                                           frame_idx, params)
           newIds == NewTrackIds(next_track_id, r.unmatched)
       IN  /\ tracks' =
                [id \in 1..(next_track_id + Len(r.unmatched) - 1) |->
                   IF id >= next_track_id
                   THEN RobustUpdate(RobustTrack(id),
                          candidates[r.unmatched[id - next_track_id + 1]],
                          frame_idx)
                   ELSE IF id \in Range(active_tracks)
                        THEN r.tracks[IndexInActive(id)]
                        ELSE tracks[id]]
           /\ active_tracks' =
                [i \in DOMAIN r.updated_tracks |->
                   active_tracks[r.updated_tracks[i]]] \o newIds
           /\ next_track_id' = next_track_id + Len(r.unmatched)
           /\ last' = FrameRecord(candidates, r, newIds)
  /\ frame_idx' = frame_idx + 1
  /\ UNCHANGED <<engine, params, completed_tracks, all_tracks, valid_tracks, phase,
                 call>>

\* The end of process_video_robust: validate and complete the active tracks.
RobustFinalize ==
  /\ engine = "robust" /\ phase = "frames"
  /\ tracks' = [id \in DOMAIN tracks |->
                  IF id \in Range(active_tracks)
                  THEN [tracks[id] EXCEPT !.is_valid = validate_track(tracks[id], params)]
                  ELSE tracks[id]]
  /\ completed_tracks' = completed_tracks \o active_tracks
  /\ valid_tracks' = SelectSeq(completed_tracks', LAMBDA id : tracks'[id].is_valid)
  /\ phase' = "done"
  /\ UNCHANGED <<engine, params, active_tracks, all_tracks, next_track_id,
                 frame_idx, last, call>>

\* UnifiedTrackerV2.process_frame, from the fused detections of the frame on,
\* with the frame counter of its caller.
UnifiedFrame ==
  /\ engine = "unified" /\ phase = "frames" /\ frame_idx < MaxFrames
  /\ \E unified_detections \in UnifiedFrameInputs(frame_idx) :
       LET r == match_detections_to_tracks(unified_detections, ActiveObjects,
                                           params)
           newIds == NewTrackIds(next_track_id, r.unmatched)
       IN  /\ tracks' =
                [id \in 1..(next_track_id + Len(r.unmatched) - 1) |->
                   IF id >= next_track_id
                   THEN UnifiedUpdate(UnifiedTrack(id),
                          r.detections[r.unmatched[id - next_track_id + 1]])
                   ELSE IF id \in Range(active_tracks)
                        THEN r.tracks[IndexInActive(id)]
                        ELSE tracks[id]]
           /\ active_tracks' =
                [i \in DOMAIN r.updated_tracks |->
                   active_tracks[r.updated_tracks[i]]] \o newIds
           /\ next_track_id' = next_track_id + Len(r.unmatched)
           /\ last' = FrameRecord(r.detections, r, newIds)
  /\ frame_idx' = frame_idx + 1
  /\ UNCHANGED <<engine, params, completed_tracks, all_tracks, valid_tracks, phase,
                 call>>

\* UnifiedTrackerV2.finalize.
UnifiedFinalize ==
  /\ engine = "unified" /\ phase = "frames"
  /\ all_tracks' = active_tracks \o completed_tracks
  /\ valid_tracks' = SelectSeq(all_tracks', LAMBDA id : UnifiedIsValid(tracks[id], params))
  /\ phase' = "done"
  /\ UNCHANGED <<engine, params, tracks, active_tracks, completed_tracks,
                 next_track_id, frame_idx, last, call>>

Next == RobustFrame \/ RobustFinalize \/ UnifiedFrame \/ UnifiedFinalize

Spec == Init /\ [][Next]_vars

\* The tracks of the finalized output: results['tracks'] of
\* process_video_robust, the list UnifiedTrackerV2.finalize returns.
FinalizedOutput == IF engine = "robust" THEN completed_tracks ELSE valid_tracks

\* --------------------------------------------- the frame stages on their own
\* The tracker's variables as they are before the first frame.
TrackerIdle ==
  UNCHANGED <<engine, params, tracks, active_tracks, completed_tracks,
              all_tracks, valid_tracks, next_track_id, frame_idx, phase, last>>

\* process_video_robust's call of the merger on the blobs of a frame.
MergeCall ==
  /\ call = NoCall
  /\ \E dark_blobs \in SeqsUpTo(DarkBlobPool, MaxBlobs),
        bright_blobs \in SeqsUpTo(BrightBlobPool, MaxBlobs),
        f \in 0..(MaxFrames - 1),
        merge_params \in MergeParamChoices :
       call' = [fn |-> "merge_blobs_into_candidates",
                dark_blobs |-> dark_blobs, bright_blobs |-> bright_blobs,
                frame_idx |-> f, params |-> merge_params,
                result |-> merge_blobs_into_candidates(dark_blobs, bright_blobs,
                                                       f, merge_params)]
  /\ TrackerIdle

MergeInit == Init /\ engine = "robust"

SpecMerge == MergeInit /\ [][MergeCall]_vars

\* UnifiedTrackerV2.process_frame's call of the fuser on the detections of a
\* frame.
FuseCall ==
  /\ call = NoCall
  /\ \E rtdetr_detections \in SeqsUpTo(RTDETRPool, MaxDets),
        motion_candidates \in SeqsUpTo(MotionPool, MaxDets),
        f \in 0..(MaxFrames - 1),
        fusion_params \in FusionParamChoices :
       call' = [fn |-> "fuse_detections",
                rtdetr_detections |-> rtdetr_detections,
                motion_candidates |-> motion_candidates,
                frame_idx |-> f, params |-> fusion_params,
                result |-> fuse_detections(rtdetr_detections, motion_candidates,
                                           f, fusion_params)]
  /\ TrackerIdle

FuseInit == Init /\ engine = "unified"

SpecFuse == FuseInit /\ [][FuseCall]_vars

\* run_phase3_pipeline's call of the extractor on the position history of
\* one track.
FeatureCall ==
  /\ call = NoCall
  /\ \E track_id \in 1..2, positions \in PositionLists :
       call' = [fn |-> "process_from_positions",
                track_id |-> track_id, positions |-> positions, source |-> "UNIFIED",
                metrics |-> extract_motion_metrics(positions),
                result |-> process_from_positions(track_id, positions, "UNIFIED")]
  /\ TrackerIdle

\* MotionMetrics values on both sides of every threshold classify_trajectory
\* reads.
ClassifyInputs ==
  { [MotionMetrics EXCEPT !.total_frames = 20, !.mean_speed = mean,
                          !.total_distance = total, !.burst_count = bursts,
                          !.rest_count = rests, !.straightness_index = straight,
                          !.direction_changes = turns, !.speed_std2 = std2] :
      mean \in {Ratio(1, 2), Ratio(4, 1)}, total \in {40, 400},
      bursts \in {0, 3}, rests \in {0, 2},
      straight \in {Ratio(1, 4), Ratio(1, 2), One},
      turns \in {0, 5}, std2 \in {Zero, Ratio(16, 1)} }

\* A call of classify_trajectory on a MotionMetrics value.
ClassifyCall ==
  /\ call = NoCall
  /\ \E metrics \in ClassifyInputs :
       call' = [fn |-> "classify_trajectory", metrics |-> metrics,
                result |-> classify_trajectory(metrics)]
  /\ TrackerIdle

FeatureInit == Init /\ engine = "unified"

FeaturesNext == FeatureCall \/ ClassifyCall

SpecFeatures == FeatureInit /\ [][FeaturesNext]_vars

\* A run of one of the engines, or one call of its first stage (the merger
\* of process_video_robust, the fuser of UnifiedTrackerV2) on the blobs or
\* detections of the first frame.
StagesNext ==
  \/ call = NoCall /\ Next
  \/ engine = "robust" /\ frame_idx = 0 /\ phase = "frames" /\ MergeCall
  \/ engine = "unified" /\ frame_idx = 0 /\ phase = "frames" /\ FuseCall

SpecStages == Init /\ [][StagesNext]_vars

\* ------------------------------------------------------------- properties
Budget == SkipBudget(engine, params)

\* A step that processes a frame.
FrameStep == frame_idx' = frame_idx + 1

\* The track was in the active list when the last frame began.
Started(id) == id \in Range(last.started)

\* Some detection of the last frame lies at this place.
DetectedAt(pt) == \E i \in DOMAIN last.detections : last.detections[i].centroid = pt

\* The track's frame history has a gap: it was matched again after a rest.
HasRested(t) ==
  \E i \in 1..(Len(t.frames) - 1) : t.frames[i + 1] > t.frames[i] + 1

TotalEntries(trs) == SumSeq([id \in DOMAIN trs |-> Len(trs[id].frames)])

\* C1: once a track has gone unmatched for more than the skip budget, no
\* later step changes it: its histories (and every other field) stay as they
\* were when the budget was exceeded, whatever detections later frames bring.
C1_FrozenNeverUpdated ==
  [][\A id \in DOMAIN tracks :
       tracks[id].frames_since_detection > Budget => tracks'[id] = tracks[id]]_vars

\* C1 witness: a track frozen before the last frame, and the last frame had a
\* detection exactly at its last position.
C1_Witness ==
  \E id \in DOMAIN tracks :
    /\ tracks[id].frames_since_detection > Budget
    /\ ~Started(id)
    /\ DetectedAt(Last(tracks[id].positions))

\* C2: in a frame, a track of the active list has frames_since_detection set
\* to 0 if it is matched and incremented by exactly 1 if it is not; a new
\* track starts at 0; nothing else (a frame the track is no longer part of,
\* finalization) changes the counter.
C2_FramesSinceDetection ==
  [][\A id \in DOMAIN tracks' :
       IF id \notin DOMAIN tracks
       THEN tracks'[id].frames_since_detection = 0
       ELSE IF FrameStep /\ id \in Range(active_tracks)
       THEN IF id \in last'.matched
            THEN /\ tracks'[id].frames_since_detection = 0
                 /\ Len(tracks'[id].frames) = Len(tracks[id].frames) + 1
            ELSE /\ tracks'[id].frames_since_detection
                      = tracks[id].frames_since_detection + 1
                 /\ tracks'[id].frames = tracks[id].frames
       ELSE tracks'[id].frames_since_detection
              = tracks[id].frames_since_detection]_vars

\* C2 witness: the last frame matched one track that had been resting and
\* left another one unmatched for the second time in a row.
C2_Witness ==
  /\ \E id \in last.matched :
        tracks[id].frames_since_detection = 0 /\ HasRested(tracks[id])
  /\ \E id \in Range(last.started) \ last.matched :
        tracks[id].frames_since_detection = 2

\* C3: the per-detection histories of every track have the same length.
C3_ParallelHistories ==
  \A id \in DOMAIN tracks :
    LET t == tracks[id]
    IN  IF engine = "robust"
        THEN /\ Len(t.positions) = Len(t.frames)
             /\ Len(t.frames) = Len(t.bboxes)
             /\ Len(t.bboxes) = Len(t.areas)
             /\ Len(t.areas) = Len(t.candidate_types)
        ELSE /\ Len(t.positions) = Len(t.frames)
             /\ Len(t.frames) = Len(t.bboxes)
             /\ Len(t.bboxes) = Len(t.sources)
             /\ Len(t.sources) = Len(t.confidences)

\* C3 witness: a track that was created, rested and was matched twice more.
C3_Witness ==
  \E id \in DOMAIN tracks : Len(tracks[id].positions) = 3 /\ HasRested(tracks[id])

\* C4: for every track ever created (dropped ones included), is_resting
\* holds exactly when the track has gone at least one frame without a match
\* since its last match and has not exceeded the skip budget.
C4_IsRestingIff ==
  \A id \in DOMAIN tracks :
    tracks[id].is_resting
      <=> /\ tracks[id].frames_since_detection >= 1
          /\ tracks[id].frames_since_detection <= Budget

\* C5: after finalization every track id ever allocated is in the finalized
\* set (completed_tracks of process_video_robust, all_tracks of finalize).
C5_AllTracksFinalized ==
  phase = "done" =>
    \A id \in 1..(next_track_id - 1) :
      id \in Range(IF engine = "robust" THEN completed_tracks ELSE all_tracks)

\* C6: a track left unmatched by a frame and kept in the active list has a
\* rest-zone radius of at most max_rest_radius, and if it was already resting
\* (unmatched in the frame before as well) its radius did not decrease.
C6_RestRadiusMonotoneCapped ==
  [][FrameStep =>
       \A id \in (Range(active_tracks) \cap Range(active_tracks')) \ last'.matched :
         /\ tracks'[id].rest_zone_radius <= params.max_rest_radius
         /\ tracks[id].is_resting =>
              tracks'[id].rest_zone_radius >= tracks[id].rest_zone_radius]_vars

\* C7: a track that rested, was matched again and now misses a frame starts
\* its new rest with the configured initial_rest_radius.
C7_RestRadiusResets ==
  [][FrameStep =>
       \A id \in (Range(active_tracks) \cap Range(active_tracks')) \ last'.matched :
         (~tracks[id].is_resting /\ HasRested(tracks[id])) =>
            /\ tracks'[id].is_resting
            /\ tracks'[id].rest_zone_radius = params.initial_rest_radius]_vars

\* C9: the accepted (detection, track) pairs of a frame are one-to-one, and
\* no track's history grows by more than one entry in a frame.
C9_OneToOne ==
  [][FrameStep =>
       /\ \A a, b \in Range(last'.accepted) : (a[1] = b[1]) <=> (a[2] = b[2])
       /\ \A i \in DOMAIN last'.detections : Cardinality(last'.assigned[i]) <= 1
       /\ \A id \in DOMAIN tracks :
            /\ Len(tracks'[id].frames) <= Len(tracks[id].frames) + 1
            /\ Len(tracks'[id].positions) <= Len(tracks[id].positions) + 1]_vars

\* C9 witness: the last frame had the same place twice with one track in
\* reach: one detection was matched to it and the other started a track.
C9_Witness ==
  /\ Len(last.detections) = 2
  /\ last.detections[1].centroid = last.detections[2].centroid
  /\ Cardinality(last.matched) = 1
  /\ Cardinality(last.created) = 1

\* C10: every detection of a frame goes to exactly one track: it is the new
\* last entry of one existing track, or the single entry of one new track
\* (frames_since_detection 0, not resting); so the number of history entries
\* over all tracks grows by the number of detections of the frame.
C10_DetectionsAccounted ==
  [][FrameStep =>
       /\ \A i \in DOMAIN last'.detections :
            /\ Cardinality(last'.assigned[i]) = 1
            /\ \A id \in last'.assigned[i] :
                 /\ Last(tracks'[id].positions) = last'.detections[i].centroid
                 /\ Last(tracks'[id].frames) = frame_idx
                 /\ tracks'[id].frames_since_detection = 0
                 /\ ~tracks'[id].is_resting
                 /\ Len(tracks'[id].frames)
                      = IF id \in DOMAIN tracks THEN Len(tracks[id].frames) + 1 ELSE 1
            /\ \A j \in DOMAIN last'.detections :
                 j # i => last'.assigned[j] # last'.assigned[i]
       /\ DOMAIN tracks' \ DOMAIN tracks
            = UNION { last'.assigned[i] : i \in DOMAIN last'.detections } \ DOMAIN tracks
       /\ TotalEntries(tracks') = TotalEntries(tracks) + Len(last'.detections)]_vars

\* C10 witness: the last frame had two detections, one appended to an
\* existing track and one that started a new track.
C10_Witness ==
  /\ Len(last.detections) = 2
  /\ last.assigned[1] \cup last.assigned[2] # last.created
  /\ last.created # {}
  /\ \E id \in last.matched : Len(tracks[id].frames) >= 2

\* C11: the id counter never decreases; a frame creates its tracks with the
\* counter's successive values, appended to the active list in that order;
\* the new ids are ids of no earlier track, frozen and dropped ones included;
\* every track carries the id it was created with, the ids ever allocated are
\* 1, 2, 3, ... up to the counter, and no id is twice in the active list.
C11_IdsFromCounter ==
  [][/\ next_track_id' >= next_track_id
     /\ FrameStep =>
          LET n == next_track_id' - next_track_id
              k == Len(active_tracks')
          IN  /\ last'.created = next_track_id..(next_track_id' - 1)
              /\ k >= n
              /\ SubSeq(active_tracks', k - n + 1, k)
                   = [j \in 1..n |-> next_track_id + j - 1]
              /\ last'.created \cap { tracks[i].track_id : i \in DOMAIN tracks } = {}
     /\ DOMAIN tracks' = 1..(next_track_id' - 1)
     /\ \A id \in DOMAIN tracks' : tracks'[id].track_id = id
     /\ \A id \in DOMAIN tracks : tracks'[id].track_id = tracks[id].track_id
     /\ \A i, j \in DOMAIN active_tracks' :
          i # j => tracks'[active_tracks'[i]].track_id
                     # tracks'[active_tracks'[j]].track_id]_vars

\* C11 witness: the last frame created two tracks while an earlier track had
\* already been frozen and dropped before that frame began.
C11_Witness ==
  /\ Cardinality(last.created) = 2
  /\ \E id \in DOMAIN tracks :
       /\ id \notin last.created
       /\ ~Started(id)
       /\ tracks[id].frames_since_detection > Budget

\* ------------------------------------------------- properties of the merger
MergeCalled == call.fn = "merge_blobs_into_candidates"

\* The dark and the bright blob lie within the merge radius of the call.
MergeNear(i, j) ==
  SqDist(call.dark_blobs[i].centroid, call.bright_blobs[j].centroid)
    <= call.params.merge_radius * call.params.merge_radius

\* The output positions holding a candidate of this type built from this blob.
DarkOnlyOf(i) ==
  { k \in DOMAIN call.result.candidates :
      /\ call.result.candidates[k].candidate_type = "dark_only"
      /\ call.result.origin[k] = [dark |-> {i}, bright |-> {}]
      /\ call.result.candidates[k].dark_blobs = <<call.dark_blobs[i]>>
      /\ call.result.candidates[k].bright_blobs = <<>> }

BrightOnlyOf(j) ==
  { k \in DOMAIN call.result.candidates :
      /\ call.result.candidates[k].candidate_type = "bright_only"
      /\ call.result.origin[k] = [dark |-> {}, bright |-> {j}]
      /\ call.result.candidates[k].dark_blobs = <<>>
      /\ call.result.candidates[k].bright_blobs = <<call.bright_blobs[j]>> }

CoupledAt == { k \in DOMAIN call.result.candidates :
                 call.result.candidates[k].candidate_type = "coupled" }

\* Box b contains box c (both as x, y, w, h).
BoxContains(b, c) ==
  /\ b[1] <= c[1] /\ b[2] <= c[2]
  /\ b[1] + b[3] >= c[1] + c[3] /\ b[2] + b[4] >= c[2] + c[4]

\* C12: when every dark-bright pair of a merger call is farther apart than
\* merge_radius, the output has len(dark) + len(bright) candidates, none of
\* them coupled: exactly one dark_only candidate for each dark blob and
\* exactly one bright_only candidate for each bright blob.
C12_FarBlobsStayApart ==
  (MergeCalled /\ \A i \in DOMAIN call.dark_blobs, j \in DOMAIN call.bright_blobs :
                    ~MergeNear(i, j))
  => /\ Len(call.result.candidates) = Len(call.dark_blobs) + Len(call.bright_blobs)
     /\ CoupledAt = {}
     /\ \A i \in DOMAIN call.dark_blobs : Cardinality(DarkOnlyOf(i)) = 1
     /\ \A j \in DOMAIN call.bright_blobs : Cardinality(BrightOnlyOf(j)) = 1

\* C12 witness: a call with two dark and two bright blobs, all pairs beyond
\* the merge radius.
C12_Witness ==
  /\ MergeCalled
  /\ Len(call.dark_blobs) = 2 /\ Len(call.bright_blobs) = 2
  /\ \A i \in DOMAIN call.dark_blobs, j \in DOMAIN call.bright_blobs :
       ~MergeNear(i, j)

\* C13: a merger call with one dark and one bright blob at a distance of at
\* most merge_radius returns exactly one candidate; it is coupled, its
\* centroid is the area-weighted mean of the two centroids, its total_area
\* the sum of the areas and its bbox the smallest box containing both boxes.
C13_NearPairCoupled ==
  (MergeCalled /\ Len(call.dark_blobs) = 1 /\ Len(call.bright_blobs) = 1
     /\ MergeNear(1, 1))
  => LET dk == call.dark_blobs[1]
         br == call.bright_blobs[1]
         out == call.result.candidates
     IN  /\ Len(out) = 1
         /\ out[1].candidate_type = "coupled"
         /\ out[1].total_area = dk.area + br.area
         /\ \A ax \in 1..2 :
              out[1].centroid[ax] * (dk.area + br.area)
                = dk.centroid[ax] * dk.area + br.centroid[ax] * br.area
         /\ BoxContains(out[1].bbox, dk.bbox)
         /\ BoxContains(out[1].bbox, br.bbox)
         /\ \A ax \in 1..2 :
              /\ out[1].bbox[ax] \in {dk.bbox[ax], br.bbox[ax]}
              /\ out[1].bbox[ax] + out[1].bbox[ax + 2]
                   \in {dk.bbox[ax] + dk.bbox[ax + 2], br.bbox[ax] + br.bbox[ax + 2]}

\* C13 witness: one dark and one bright blob of different areas, exactly
\* merge_radius apart.
C13_Witness ==
  /\ MergeCalled
  /\ Len(call.dark_blobs) = 1 /\ Len(call.bright_blobs) = 1
  /\ SqDist(call.dark_blobs[1].centroid, call.bright_blobs[1].centroid)
       = call.params.merge_radius * call.params.merge_radius
  /\ call.dark_blobs[1].area # call.bright_blobs[1].area

\* C14: the candidates of a merger call partition its blobs: every dark and
\* every bright blob is in exactly one candidate; a coupled candidate holds
\* exactly one dark and one bright blob, within merge_radius of each other;
\* the other candidates hold one blob; the number of candidates is
\* len(dark) + len(bright) minus the number of coupled candidates.
C14_MergerPartitions ==
  MergeCalled
  => LET out == call.result.candidates
         origin == call.result.origin
     IN  /\ Len(origin) = Len(out)
         /\ \A i \in DOMAIN call.dark_blobs :
              Cardinality({ k \in DOMAIN out : i \in origin[k].dark }) = 1
         /\ \A j \in DOMAIN call.bright_blobs :
              Cardinality({ k \in DOMAIN out : j \in origin[k].bright }) = 1
         /\ \A k \in DOMAIN out :
              /\ origin[k].dark \subseteq DOMAIN call.dark_blobs
              /\ origin[k].bright \subseteq DOMAIN call.bright_blobs
              /\ IF k \in CoupledAt
                 THEN \E i \in DOMAIN call.dark_blobs, j \in DOMAIN call.bright_blobs :
                        /\ origin[k] = [dark |-> {i}, bright |-> {j}]
                        /\ out[k].dark_blobs = <<call.dark_blobs[i]>>
                        /\ out[k].bright_blobs = <<call.bright_blobs[j]>>
                        /\ MergeNear(i, j)
                 ELSE \/ \E i \in DOMAIN call.dark_blobs : k \in DarkOnlyOf(i)
                      \/ \E j \in DOMAIN call.bright_blobs : k \in BrightOnlyOf(j)
         /\ Len(out) = Len(call.dark_blobs) + Len(call.bright_blobs)
                         - Cardinality(CoupledAt)

\* C14 witness: two dark and two bright blobs give one coupled candidate and
\* two single ones, although the coupled bright blob is also within the
\* radius of the dark blob left alone.
C14_Witness ==
  /\ MergeCalled
  /\ Len(call.dark_blobs) = 2 /\ Len(call.bright_blobs) = 2
  /\ Cardinality(CoupledAt) = 1
  /\ \E i \in DOMAIN call.dark_blobs, k \in CoupledAt :
       /\ DarkOnlyOf(i) # {}
       /\ \E j \in call.result.origin[k].bright : MergeNear(i, j)

\* -------------------------------------------------- properties of the fuser
FuseCalled == call.fn = "fuse_detections"

\* The output positions built from this appearance detection / candidate.
OutputsOfRtdetr(i) ==
  { k \in DOMAIN call.result.unified : i \in call.result.origin[k].rtdetr }

OutputsOfMotion(j) ==
  { k \in DOMAIN call.result.unified : j \in call.result.origin[k].motion }

FusedAt == { k \in DOMAIN call.result.unified :
               call.result.unified[k].source = "fused" }

\* C15: a fuser call discards no signal: every appearance detection yields
\* exactly one output, fused or appearance-only, with its geometry and
\* class; every motion candidate is consumed by exactly one fused output or
\* yields exactly one motion-only output, and none is consumed twice; the
\* output has len(appearance) + len(motion) - (number fused) entries.
C15_FuserKeepsSignals ==
  FuseCalled
  => LET out == call.result.unified
         origin == call.result.origin
     IN  /\ Len(origin) = Len(out)
         /\ \A i \in DOMAIN call.rtdetr_detections :
              /\ Cardinality(OutputsOfRtdetr(i)) = 1
              /\ \A k \in OutputsOfRtdetr(i) :
                   /\ out[k].source \in {"fused", "rtdetr"}
                   /\ out[k].bbox = call.rtdetr_detections[i].bbox
                   /\ out[k].centroid = call.rtdetr_detections[i].centroid
                   /\ out[k].rtdetr_class = call.rtdetr_detections[i].class_name
         /\ \A j \in DOMAIN call.motion_candidates :
              /\ Cardinality(OutputsOfMotion(j)) = 1
              /\ \A k \in OutputsOfMotion(j) :
                   /\ out[k].source \in {"fused", "motion"}
                   /\ out[k].motion_type = call.motion_candidates[j].candidate_type
                   /\ out[k].source = "motion"
                        => /\ out[k].bbox = call.motion_candidates[j].bbox
                           /\ out[k].centroid = call.motion_candidates[j].centroid
         /\ \A k \in DOMAIN out :
              /\ origin[k].rtdetr \subseteq DOMAIN call.rtdetr_detections
              /\ origin[k].motion \subseteq DOMAIN call.motion_candidates
              /\ Cardinality(origin[k].rtdetr)
                   = (IF out[k].source \in {"fused", "rtdetr"} THEN 1 ELSE 0)
              /\ Cardinality(origin[k].motion)
                   = (IF out[k].source \in {"fused", "motion"} THEN 1 ELSE 0)
         /\ Len(out) = Len(call.rtdetr_detections) + Len(call.motion_candidates)
                         - Cardinality(FusedAt)

\* C15 witness: two appearance detections and two motion candidates give one
\* fused, one appearance-only and one motion-only output, the fused
\* candidate being eligible for the other appearance detection too.
C15_Witness ==
  /\ FuseCalled
  /\ Len(call.rtdetr_detections) = 2 /\ Len(call.motion_candidates) = 2
  /\ Cardinality(FusedAt) = 1
  /\ \E k \in DOMAIN call.result.unified : call.result.unified[k].source = "rtdetr"
  /\ \E k \in DOMAIN call.result.unified : call.result.unified[k].source = "motion"
  /\ \E k \in FusedAt, j \in DOMAIN call.motion_candidates :
       /\ j \in call.result.origin[k].motion
       /\ \A i \in DOMAIN call.rtdetr_detections :
            FuseEligible(call.rtdetr_detections[i], call.motion_candidates[j],
                         call.params)

\* The motion candidates consumed by the appearance detections before i.
ConsumedBefore(i) ==
  UNION { call.result.origin[k].motion : k \in 1..(i - 1) }

\* The unconsumed candidates eligible for appearance detection i:
\* IoU >= iou_threshold or centroid distance <= distance_threshold.
EligibleFor(i) ==
  { j \in DOMAIN call.motion_candidates \ ConsumedBefore(i) :
      LET iou == calculate_iou(call.rtdetr_detections[i].bbox,
                               call.motion_candidates[j].bbox)
      IN  \/ iou.num * 10 >= call.params.iou_threshold * iou.den
          \/ SqDist(call.rtdetr_detections[i].centroid,
                    call.motion_candidates[j].centroid)
               <= call.params.distance_threshold * call.params.distance_threshold }

ScoreFor(i, j) ==
  FuseScore(call.rtdetr_detections[i], call.motion_candidates[j], call.params)

\* C16: in a fuser call, an appearance detection with at least one
\* unconsumed eligible motion candidate yields a fused output, paired with
\* an eligible unconsumed candidate of maximal score; an appearance-only
\* output is emitted only when no unconsumed candidate is eligible.
C16_FusedWhenEligible ==
  FuseCalled
  => \A i \in DOMAIN call.rtdetr_detections :
       LET out == call.result.unified[i]
           consumed == call.result.origin[i].motion
       IN  IF EligibleFor(i) # {}
           THEN /\ out.source = "fused"
                /\ \E j \in EligibleFor(i) :
                     /\ consumed = {j}
                     /\ \A j2 \in EligibleFor(i) :
                          ~RatioGreater(ScoreFor(i, j2), ScoreFor(i, j))
           ELSE out.source = "rtdetr" /\ consumed = {}

\* ---------------------------------------------- properties of finalization
\* The tracks finalization validates.
Validated == Range(active_tracks)

\* The verdict of finalization on a track: the is_valid flag of a RobustTrack,
\* membership of finalize's valid_tracks for a UnifiedTrack.
MarkedValid(id) ==
  IF engine = "robust" THEN tracks[id].is_valid ELSE id \in Range(valid_tracks)

\* Sum of the distances between consecutive positions.
PathLength(positions) ==
  SumSeq([i \in 1..(Len(positions) - 1) |-> Distance(positions[i], positions[i + 1])])

\* The displacement property of the running engine's track class.
DisplacementOf(t) ==
  IF engine = "robust" THEN RobustDisplacement(t) ELSE UnifiedDisplacement(t)

\* min_speed <= avg_speed <= max_speed, avg_speed being the path length over
\* the number of steps, 0 for a track of fewer than two positions.
SpeedWithin(t, lo, hi) ==
  IF Len(t.positions) < 2 THEN lo <= 0 /\ 0 <= hi
  ELSE /\ lo * (Len(t.positions) - 1) <= PathLength(t.positions)
       /\ PathLength(t.positions) <= hi * (Len(t.positions) - 1)

\* C17: finalization marks a track valid if and only if its length is at
\* least min_track_length, its displacement at least min_displacement and
\* its average speed within [min_speed, max_speed]; in particular a track
\* shorter than min_track_length is invalid whatever else holds.
C17_ValidIff ==
  phase = "done"
  => \A id \in Validated :
       /\ MarkedValid(id)
            <=> /\ Len(tracks[id].frames) >= params.min_track_length
                /\ DisplacementOf(tracks[id]) >= params.min_displacement
                /\ SpeedWithin(tracks[id], params.min_speed, params.max_speed)
       /\ Len(tracks[id].frames) < params.min_track_length => ~MarkedValid(id)

\* C17 witness: with min_track_length 5, finalization rejected a track of
\* length 4 whose displacement and speed are within the thresholds.
C17_Witness ==
  /\ phase = "done"
  /\ params.min_track_length = 5
  /\ \E id \in Validated :
       /\ Len(tracks[id].frames) = 4
       /\ DisplacementOf(tracks[id]) >= params.min_displacement
       /\ SpeedWithin(tracks[id], params.min_speed, params.max_speed)
       /\ ~MarkedValid(id)

\* C18: the displacement finalization compares with min_displacement is the
\* chained path length of the position history, for the tracks of both
\* engines: a track that moves away and returns has the full path as its
\* displacement, not 0.
C18_DisplacementIsPathLength ==
  \A id \in DOMAIN tracks :
    DisplacementOf(tracks[id]) = PathLength(tracks[id].positions)

\* C19: a track that fails validation stays in the finalized output, with
\* its validity flag false.
C19_InvalidTracksRetained ==
  phase = "done"
  => \A id \in Validated :
       ~MarkedValid(id) => id \in Range(FinalizedOutput)

\* ------------------------------------------- properties of degenerate input
\* C20: no stage raises, and each returns its defined output, whatever
\* combination of empty and non-empty lists it is given: a frame of the
\* matcher with or without detections and with or without active tracks
\* (without tracks every detection starts a track, without detections
\* nothing is matched or created); the merger with either blob list empty
\* (one single candidate per blob of the other list); the fuser with either
\* input empty (one appearance-only or motion-only output per input).
C20_DefinedOnEmptyInputs ==
  /\ ~last.raised
  /\ last.started = <<>> => /\ last.matched = {}
                            /\ Cardinality(last.created) = Len(last.detections)
  /\ last.detections = <<>> => last.matched = {} /\ last.created = {}
  /\ MergeCalled
       => /\ ~call.result.raised
          /\ call.dark_blobs = <<>>
               => /\ Len(call.result.candidates) = Len(call.bright_blobs)
                  /\ \A j \in DOMAIN call.bright_blobs : BrightOnlyOf(j) = {j}
          /\ call.bright_blobs = <<>>
               => /\ Len(call.result.candidates) = Len(call.dark_blobs)
                  /\ \A i \in DOMAIN call.dark_blobs : DarkOnlyOf(i) = {i}
  /\ FuseCalled
       => /\ call.rtdetr_detections = <<>>
               => /\ Len(call.result.unified) = Len(call.motion_candidates)
                  /\ \A j \in DOMAIN call.motion_candidates :
                       /\ call.result.unified[j].source = "motion"
                       /\ call.result.origin[j] = [rtdetr |-> {}, motion |-> {j}]
          /\ call.motion_candidates = <<>>
               => /\ Len(call.result.unified) = Len(call.rtdetr_detections)
                  /\ \A i \in DOMAIN call.rtdetr_detections :
                       /\ call.result.unified[i].source = "rtdetr"
                       /\ call.result.origin[i] = [rtdetr |-> {i}, motion |-> {}]

\* C20 witness: the merger was called with no dark blob and two bright ones.
C20_Witness ==
  /\ MergeCalled
  /\ call.dark_blobs = <<>>
  /\ Len(call.bright_blobs) = 2


\* ---------------------------------------------------- feature extractor
FeatureCalled == call.fn = "process_from_positions"

ClassifyCalled == call.fn = "classify_trajectory"

\* C21: the feature vector process_from_positions returns has exactly 20
\* components whatever the length of the track, a track of two positions
\* and a track of fewer than two included.
C21_VectorHasTwentyComponents ==
  FeatureCalled => Len(call.result.feature_vector) = 20


\* The positions lie on one line through the first and the last of them,
\* no step goes backwards along it, and the last is not the first.
CollinearMonotone(positions) ==
  /\ Len(positions) >= 2
  /\ positions[1] # Last(positions)
  /\ LET ax == Last(positions)[1] - positions[1][1]
         ay == Last(positions)[2] - positions[1][2]
     IN  /\ \A i \in DOMAIN positions :
              (positions[i][1] - positions[1][1]) * ay
                = (positions[i][2] - positions[1][2]) * ax
         /\ \A i \in 1..(Len(positions) - 1) :
              (positions[i + 1][1] - positions[i][1]) * ax
                + (positions[i + 1][2] - positions[i][2]) * ay >= 0

\* C22: for a track that advances along one line, extract_motion_metrics
\* reports a total_distance equal to the displacement and a
\* straightness_index of 1, and RobustTrack.displacement of the same
\* positions is that distance too.
C22_StraightTrackDistances ==
  (FeatureCalled /\ CollinearMonotone(call.positions)) =>
    /\ call.metrics.total_distance = call.metrics.displacement
    /\ call.metrics.straightness_index = One
    /\ RobustDisplacement([RobustTrack(call.track_id) EXCEPT !.positions = call.positions])
         = call.metrics.displacement

C22_Witness ==
  /\ FeatureCalled
  /\ call.positions = << <<0, 0>>, <<10, 0>>, <<20, 0>> >>
  /\ call.metrics.total_distance = 20
  /\ call.metrics.displacement = 20
  /\ call.metrics.straightness_index = One
  /\ RobustDisplacement([RobustTrack(call.track_id) EXCEPT !.positions = call.positions]) = 20


\* A call that classified a MotionMetrics value: classify_trajectory itself,
\* or process_from_positions on at least two positions.
Classified ==
  ClassifyCalled \/ (FeatureCalled /\ Len(call.positions) >= 2)

ClassifiedAs ==
  IF ClassifyCalled THEN call.result
  ELSE call.result.behavioral_features.trajectory_type

RuleOrder == << "stationary", "darting", "linear", "circular", "meandering" >>

RuleHolds(rule, metrics) ==
  CASE rule = "stationary" -> IsStationaryRule(metrics)
    [] rule = "darting"    -> IsDartingRule(metrics)
    [] rule = "linear"     -> IsLinearRule(metrics)
    [] rule = "circular"   -> IsCircularRule(metrics)
    [] rule = "meandering" -> IsMeanderingRule(metrics)

\* C23: at most one of the five rule conditions of classify_trajectory holds
\* of any MotionMetrics value it is given.
C23_RulesMutuallyExclusive ==
  Classified =>
    Cardinality({k \in DOMAIN RuleOrder : RuleHolds(RuleOrder[k], call.metrics)}) <= 1

\* C24: classify_trajectory returns the first rule, in the order stationary,
\* darting, linear, circular, meandering, whose condition holds, and unknown
\* when none does; a mean_speed below 1 with a total_distance below 50 is
\* stationary whatever else holds.
C24_FirstMatchingRule ==
  Classified =>
    /\ \A k \in DOMAIN RuleOrder :
         ClassifiedAs = RuleOrder[k]
           <=> /\ RuleHolds(RuleOrder[k], call.metrics)
               /\ \A j \in 1..(k - 1) : ~RuleHolds(RuleOrder[j], call.metrics)
    /\ ClassifiedAs = "unknown"
         <=> \A k \in DOMAIN RuleOrder : ~RuleHolds(RuleOrder[k], call.metrics)
    /\ (call.metrics.mean_speed.num < call.metrics.mean_speed.den
          /\ call.metrics.total_distance < 50) => ClassifiedAs = "stationary"

C24_Witness ==
  /\ ClassifyCalled
  /\ IsStationaryRule(call.metrics)
  /\ IsDartingRule(call.metrics)
  /\ IsLinearRule(call.metrics)
  /\ call.result = "stationary"


\* --------------------------------------------------------- association
\* The position the running engine's matcher predicts for a track.
PredictedPosition(t) ==
  IF engine = "robust" THEN RobustPredictedPosition(t) ELSE UnifiedPredictedPosition(t)

\* last + (last - second-to-last).
Extrapolated(positions) ==
  LET n == Len(positions)
  IN  << 2 * positions[n][1] - positions[n - 1][1],
         2 * positions[n][2] - positions[n - 1][2] >>

\* C25: the predicted position of a track is its rest-zone centre while it
\* rests; otherwise the last position advanced by the last step when it has
\* two positions or more, the last position when it has one, and the origin
\* when it has none.
C25_PredictedPosition ==
  \A i \in DOMAIN active_tracks :
    LET t == ActiveObjects[i]
    IN  PredictedPosition(t) =
          IF t.is_resting THEN t.rest_zone_center
          ELSE IF Len(t.positions) >= 2 THEN Extrapolated(t.positions)
          ELSE IF Len(t.positions) = 1 THEN t.positions[1]
          ELSE <<0, 0>>


\* The frame went through the matching branch: tracks and detections both
\* non-empty.
MatchingFrame == FrameStep /\ active_tracks # <<>> /\ last'.detections # <<>>

\* Detection c and the track at index k of the list given to the matcher are
\* in the pair list of the frame.
IsCandidatePair(rec, c, k) == \E i \in DOMAIN rec.pairs : rec.pairs[i].c = c /\ rec.pairs[i].t = k

\* The distance from the point to the track's predicted position, halved
\* when the track rests and the point is within rest_zone_radius of the
\* rest-zone centre, is at most the cap; compared on the squares.
WithinCap(pt, t) ==
  LET cap == IF t.is_resting THEN t.rest_zone_radius ELSE params.max_distance
      bonus == t.is_resting
                 /\ SqDist(pt, t.rest_zone_center) <= t.rest_zone_radius * t.rest_zone_radius
  IN  IF bonus THEN SqDist(pt, PredictedPosition(t)) <= 4 * cap * cap
      ELSE SqDist(pt, PredictedPosition(t)) <= cap * cap

\* C26: a (detection, track) pair is in the pair list iff its adjusted
\* distance is at most the track's cap (rest_zone_radius when resting, else
\* max_distance), the adjusted distance being the distance to the predicted
\* position, halved exactly when the track rests and the detection is inside
\* its rest zone; in match_candidates_to_tracks a resting track is paired
\* with exactly the detections inside its rest zone.
C26_CandidateIffWithinCap ==
  [][MatchingFrame =>
       \A c \in DOMAIN last'.detections, k \in DOMAIN active_tracks :
         LET t == ActiveObjects[k]
             pt == last'.detections[c].centroid
         IN  /\ IsCandidatePair(last', c, k) <=> WithinCap(pt, t)
             /\ (engine = "robust" /\ t.is_resting) =>
                  (IsCandidatePair(last', c, k)
                     <=> SqDist(pt, t.rest_zone_center)
                           <= t.rest_zone_radius * t.rest_zone_radius)]_vars

\* A frame matched a track that was resting (its frames have a gap before
\* the last one) and left another pair of a detection and a track out of the
\* pair list.
C26_Witness ==
  /\ \E i \in DOMAIN last.accepted :
       LET t == tracks[last.started[last.accepted[i][2]]]
           n == Len(t.frames)
       IN  n >= 2 /\ t.frames[n] = frame_idx - 1 /\ t.frames[n] > t.frames[n - 1] + 1
  /\ \E c \in DOMAIN last.detections, k \in DOMAIN last.started :
       ~IsCandidatePair(last, c, k)


\* Pair i of the frame's pair list was accepted.
AcceptedPair(i) == <<last.pairs[i].c, last.pairs[i].t>> \in Range(last.accepted)

\* C27: the greedy loop goes through the pairs in ascending order of
\* adjusted distance; a pair is accepted iff no pair before it in that order
\* was accepted with the same detection or the same track; so the first pair
\* of the order, one of globally smallest adjusted distance, is always
\* accepted.
C27_GreedyAscending ==
  /\ \A i, j \in DOMAIN last.pairs : i < j => last.pairs[i].d <= last.pairs[j].d
  /\ \A i \in DOMAIN last.pairs :
       AcceptedPair(i)
         <=> \A j \in 1..(i - 1) :
               AcceptedPair(j) => /\ last.pairs[j].c # last.pairs[i].c
                                  /\ last.pairs[j].t # last.pairs[i].t
  /\ Len(last.accepted) = Cardinality({i \in DOMAIN last.pairs : AcceptedPair(i)})
  /\ last.pairs # <<>> =>
       /\ AcceptedPair(1)
       /\ \A i \in DOMAIN last.pairs : last.pairs[1].d <= last.pairs[i].d

\* A frame with pairs of different distances, the nearer accepted and a
\* farther one turned down because its track was taken.
C27_Witness ==
  \E i, j \in DOMAIN last.pairs :
    /\ i < j
    /\ last.pairs[i].d < last.pairs[j].d
    /\ last.pairs[i].t = last.pairs[j].t
    /\ AcceptedPair(i)
    /\ ~AcceptedPair(j)


\* Detections i and j of the frame are both paired with the track at index
\* k, at the same adjusted distance, and i is of the higher source priority
\* (fused, then appearance-only, then motion-only).
TiedFor(i, j, k) ==
  /\ \E a, b \in DOMAIN last.pairs :
       /\ last.pairs[a].c = i /\ last.pairs[a].t = k
       /\ last.pairs[b].c = j /\ last.pairs[b].t = k
       /\ last.pairs[a].d = last.pairs[b].d
  /\ LET Rank(src) == CASE src = "fused" -> 1 [] src = "rtdetr" -> 2
                         [] src = "reinforced" -> 3 [] src = "motion" -> 4
     IN  Rank(last.detections[i].source) < Rank(last.detections[j].source)

\* C28: in match_detections_to_tracks, of two detections of different source
\* at the same adjusted distance from a track, the one of lower priority
\* does not get the track while the one of higher priority is left without
\* a track: the track goes to the higher priority.
C28_SourcePriorityBreaksTies ==
  engine = "unified" =>
    \A i, j \in DOMAIN last.detections, k \in DOMAIN last.started :
      (TiedFor(i, j, k) /\ <<j, k>> \in Range(last.accepted))
        => \E a \in Range(last.accepted) : a[1] = i

\* The appearance-only detection came first in the frame's list, tied with
\* the fused one for the only track, and the fused one got the track.
C28_Witness ==
  /\ engine = "unified"
  /\ \E i, j \in DOMAIN last.detections, k \in DOMAIN last.started :
       /\ TiedFor(i, j, k)
       /\ last.detections[i].source = "fused"
       /\ last.detections[j].source = "rtdetr"
       /\ <<i, k>> \in Range(last.accepted)
       /\ tracks[last.started[k]].sources[Len(tracks[last.started[k]].sources)] = "fused"


\* C29: the skip budget is inclusive.  A track of the active list never has
\* missed more frames than the budget; a frame that leaves it unmatched keeps
\* it in the active list, resting, while its count of missed frames stays
\* within the budget, and drops it when the count becomes the budget plus
\* one; a track that has missed exactly the budget is still given to the
\* matcher, which matches it when its pair comes first.
C29_SkipBudgetInclusive ==
  [][FrameStep =>
       \A k \in DOMAIN active_tracks :
         LET id == active_tracks[k]
             missed == tracks[id].frames_since_detection
         IN  /\ missed <= Budget
             /\ (id \notin last'.matched /\ missed + 1 <= Budget) =>
                  /\ id \in Range(active_tracks')
                  /\ tracks'[id].is_resting
                  /\ tracks'[id].frames_since_detection = missed + 1
             /\ (id \notin last'.matched /\ missed + 1 = Budget + 1) =>
                  /\ id \notin Range(active_tracks')
                  /\ tracks'[id].frames_since_detection = Budget + 1
             /\ (missed = Budget /\ last'.pairs # <<>> /\ last'.pairs[1].t = k) =>
                  /\ id \in last'.matched
                  /\ id \in Range(active_tracks')
                  /\ tracks'[id].frames_since_detection = 0]_vars

\* The last frame matched a track that had missed exactly the budget of
\* frames before it.
C29_Witness ==
  \E id \in last.matched :
    LET t == tracks[id]
        n == Len(t.frames)
    IN  /\ n >= 2
        /\ t.frames[n] = frame_idx - 1
        /\ t.frames[n] = t.frames[n - 1] + Budget + 1
        /\ id \in Range(active_tracks)


\* What the running engine's empty-detections branch and its unmatched-track
\* branch make of a track.
MissedOnEmptyFrame(t) ==
  IF engine = "robust" THEN RobustMissedNoCandidates(t, params)
  ELSE UnifiedMissedNoDetections(t, params)

MissedUnmatched(t) ==
  IF engine = "robust" THEN RobustMissedUnmatched(t, params)
  ELSE UnifiedMissedUnmatched(t, params)

SameRestState(a, b) ==
  /\ a.frames_since_detection = b.frames_since_detection
  /\ a.is_resting = b.is_resting
  /\ a.rest_zone_center = b.rest_zone_center
  /\ a.rest_zone_radius = b.rest_zone_radius

\* C30: a track left unmatched by a frame ends with the
\* frames_since_detection, is_resting, rest_zone_center and rest_zone_radius
\* that either branch, the empty-detections one and the unmatched-track one,
\* gives it, and is kept in the active list on the same condition, whether
\* the frame had detections or not.
C30_EmptyFrameSameAsUnmatched ==
  [][FrameStep =>
       \A k \in DOMAIN active_tracks :
         LET id == active_tracks[k]
         IN  id \notin last'.matched =>
               /\ SameRestState(tracks'[id], MissedOnEmptyFrame(tracks[id]))
               /\ SameRestState(tracks'[id], MissedUnmatched(tracks[id]))
               /\ id \in Range(active_tracks')
                    <=> tracks[id].frames_since_detection + 1 <= Budget]_vars

\* The last frame had detections and left a resting track unmatched, which
\* stays active with its rest zone expanded.
C30_Witness ==
  /\ last.detections # <<>>
  /\ \E id \in Range(last.started) \ last.matched :
       /\ id \in Range(active_tracks)
       /\ tracks[id].is_resting
       /\ tracks[id].frames_since_detection >= 2


\* ------------------------------------------------------- frame effects
\* The track is the old one with one entry appended to each per-detection
\* history, taken from the detection and the frame index.
AppendedEntry(old, new, det, f) ==
  /\ new.positions = Append(old.positions, det.centroid)
  /\ new.frames = Append(old.frames, f)
  /\ new.bboxes = Append(old.bboxes, det.bbox)
  /\ IF engine = "robust"
     THEN /\ new.areas = Append(old.areas, det.total_area)
          /\ new.candidate_types = Append(old.candidate_types, det.candidate_type)
     ELSE /\ new.sources = Append(old.sources, det.source)
          /\ new.confidences = Append(old.confidences, det.unified_conf)

\* C31: a frame that leaves a track unmatched changes nothing of it but
\* frames_since_detection and the rest state; a frame that matches it
\* appends exactly one entry to each per-detection history, with the frame
\* index and the centroid of the one detection matched to it, and sets
\* frames_since_detection to 0 and is_resting to false.
C31_FrameEffectOnHistories ==
  [][FrameStep =>
       \A k \in DOMAIN active_tracks :
         LET id == active_tracks[k]
             old == tracks[id]
             new == tracks'[id]
             dets == {i \in DOMAIN last'.detections : id \in last'.assigned[i]}
         IN  IF id \notin last'.matched
             THEN /\ dets = {}
                  /\ new = [old EXCEPT
                              !.frames_since_detection = new.frames_since_detection,
                              !.is_resting = new.is_resting,
                              !.rest_zone_center = new.rest_zone_center,
                              !.rest_zone_radius = new.rest_zone_radius]
             ELSE /\ Cardinality(dets) = 1
                  /\ \A i \in dets : AppendedEntry(old, new, last'.detections[i], frame_idx)
                  /\ new.frames_since_detection = 0
                  /\ ~new.is_resting]_vars

\* The last frame matched a track that was resting, at a new place, and left
\* another track unmatched.
C31_Witness ==
  /\ \E id \in last.matched :
       LET t == tracks[id]
           n == Len(t.frames)
       IN  /\ n >= 2
           /\ t.frames[n] = frame_idx - 1
           /\ t.frames[n] > t.frames[n - 1] + 1
           /\ t.positions[n] # t.positions[n - 1]
           /\ ~t.is_resting
  /\ Range(last.started) \ last.matched # {}


\* ------------------------------------------------------- merger order
\* Squared distance of dark blob i and bright blob j of the call.
MergeDist(i, j) ==
  SqDist(call.dark_blobs[i].centroid, call.bright_blobs[j].centroid)

\* The dark-bright index pairs of the call within the merge radius.
NearPairs ==
  { pr \in (DOMAIN call.dark_blobs) \X (DOMAIN call.bright_blobs) :
      MergeNear(pr[1], pr[2]) }

\* Pair p comes before pair q: nearer, or as near with the lower dark index,
\* or as near and of the same dark blob with the lower bright index.
PairBefore(p, q) ==
  \/ MergeDist(p[1], p[2]) < MergeDist(q[1], q[2])
  \/ /\ MergeDist(p[1], p[2]) = MergeDist(q[1], q[2])
     /\ (p[1] < q[1] \/ (p[1] = q[1] /\ p[2] < q[2]))

\* The output has a coupled candidate of dark blob i and bright blob j.
CoupledPair(i, j) ==
  \E k \in CoupledAt : call.result.origin[k] = [dark |-> {i}, bright |-> {j}]

\* C32: the merger accepts the dark-bright pairs within the radius in
\* ascending order of distance, pairs of equal distance in the order of
\* enumeration (lower dark index, then lower bright index): a pair is coupled
\* iff no pair before it in that order was coupled with one of its blobs,
\* and the coupled candidates come out in that order; so a dark blob does
\* not couple with the farther-indexed of two equidistant bright blobs while
\* the lower-indexed one is left uncoupled.
C32_MergerTieBreak ==
  MergeCalled =>
    /\ \A p \in NearPairs :
         CoupledPair(p[1], p[2])
           <=> \A q \in NearPairs :
                 (PairBefore(q, p) /\ CoupledPair(q[1], q[2]))
                   => (q[1] # p[1] /\ q[2] # p[2])
    /\ \A k1, k2 \in CoupledAt :
         k1 < k2 =>
           \E p, q \in NearPairs :
             /\ call.result.origin[k1] = [dark |-> {p[1]}, bright |-> {p[2]}]
             /\ call.result.origin[k2] = [dark |-> {q[1]}, bright |-> {q[2]}]
             /\ PairBefore(p, q)
    /\ \A i \in DOMAIN call.dark_blobs, j1, j2 \in DOMAIN call.bright_blobs :
         (j1 < j2 /\ MergeNear(i, j1) /\ MergeDist(i, j1) = MergeDist(i, j2)
            /\ CoupledPair(i, j2))
           => \E i2 \in DOMAIN call.dark_blobs : i2 # i /\ CoupledPair(i2, j1)

\* One dark blob with two different bright blobs at the same distance
\* within the radius: it is coupled with the first of the list, and the
\* second comes out bright_only.
C32_Witness ==
  /\ MergeCalled
  /\ Len(call.dark_blobs) = 1 /\ Len(call.bright_blobs) = 2
  /\ call.bright_blobs[1] # call.bright_blobs[2]
  /\ MergeNear(1, 1)
  /\ MergeDist(1, 1) = MergeDist(1, 2)
  /\ CoupledPair(1, 1)
  /\ BrightOnlyOf(2) # {}


\* C39: the coupling of the merger is maximal: its output never holds a
\* dark_only candidate and a bright_only candidate whose blobs' centroids
\* are within merge_radius of each other.
C39_MergerMaximal ==
  MergeCalled =>
    \A i \in DOMAIN call.dark_blobs, j \in DOMAIN call.bright_blobs :
      (DarkOnlyOf(i) # {} /\ BrightOnlyOf(j) # {}) => ~MergeNear(i, j)

\* Two dark and two bright blobs: a dark blob stays dark_only because the
\* bright blob near it is coupled with the other dark blob, and the other
\* bright blob, far from both, stays bright_only.
C39_Witness ==
  /\ MergeCalled
  /\ Len(call.dark_blobs) = 2 /\ Len(call.bright_blobs) = 2
  /\ \E i, i2 \in DOMAIN call.dark_blobs, j, j2 \in DOMAIN call.bright_blobs :
       /\ DarkOnlyOf(i) # {}
       /\ MergeNear(i, j)
       /\ CoupledPair(i2, j)
       /\ BrightOnlyOf(j2) # {}


\* ------------------------------------------------------ fused detections
\* (appearance_conf * rtdetr_weight + 0.7 * motion_weight) * both_detected_boost
\* in units of 1/10000 (confidences in percent, weights and boost in tenths).
BoostedConf(conf, fusion) ==
  (conf * fusion.rtdetr_weight + 70 * fusion.motion_weight) * fusion.both_detected_boost

\* C33: a fused detection has the bbox and the centroid of its appearance
\* detection, and its unified_conf is the boosted weighted confidence capped
\* at 1.0.
C33_FusedGeometryAndConfidence ==
  FuseCalled =>
    \A k \in FusedAt :
      \E r \in DOMAIN call.rtdetr_detections, m \in DOMAIN call.motion_candidates :
        LET out == call.result.unified[k]
            boosted == BoostedConf(call.rtdetr_detections[r].confidence, call.params)
        IN  /\ call.result.origin[k] = [rtdetr |-> {r}, motion |-> {m}]
            /\ out.bbox = call.rtdetr_detections[r].bbox
            /\ out.centroid = call.rtdetr_detections[r].centroid
            /\ out.unified_conf = (IF boosted > 10000 THEN 10000 ELSE boosted)
            /\ out.unified_conf <= 10000

\* A fused detection whose boosted confidence is above 1.0 and is capped,
\* built with a motion candidate of another box and centroid, and one whose
\* boosted confidence is below 1.0.
C33_Witness ==
  /\ FuseCalled
  /\ \E k \in FusedAt :
       \E r \in call.result.origin[k].rtdetr, m \in call.result.origin[k].motion :
         /\ BoostedConf(call.rtdetr_detections[r].confidence, call.params) > 10000
         /\ call.result.unified[k].unified_conf = 10000
         /\ call.motion_candidates[m].bbox # call.result.unified[k].bbox
         /\ call.motion_candidates[m].centroid # call.result.unified[k].centroid
  /\ \E k \in FusedAt : call.result.unified[k].unified_conf < 10000


\* ------------------------------------------------------------ rest zone
\* C34: a track of match_candidates_to_tracks that has missed k frames in a
\* row, 1 <= k <= max_skip_frames, has the rest_zone_radius
\* min(max_rest_radius, initial_rest_radius + (k - 1) * rest_expand_rate) of
\* the configured parameters.
C34_RestRadiusFromParams ==
  engine = "robust" =>
    \A i \in DOMAIN active_tracks :
      LET t == ActiveObjects[i]
          k == t.frames_since_detection
      IN  (1 <= k /\ k <= params.max_skip_frames) =>
            t.rest_zone_radius
              = Min(params.max_rest_radius,
                    params.initial_rest_radius + (k - 1) * params.rest_expand_rate)


\* --------------------------------------------------------- rest periods
\* Step i of the call's positions (from position i to position i + 1) is
\* shorter than the cutoff 2.0; compared on the squares.
SlowStep(i) == SqDist(call.positions[i], call.positions[i + 1]) < 4

SlowSteps == { i \in 1..(Len(call.positions) - 1) : SlowStep(i) }

\* C35: total_rest_frames is the number of steps with a speed below 2.0,
\* rest_count the number of maximal runs of consecutive such steps, a run
\* that reaches the end of the track included; total_rest_frames is at least
\* rest_count, and one is 0 iff the other is.
C35_RestPeriodsRunLength ==
  FeatureCalled =>
    /\ call.metrics.total_rest_frames = Cardinality(SlowSteps)
    /\ call.metrics.rest_count
         = Cardinality({ i \in SlowSteps : i - 1 \notin SlowSteps })
    /\ call.metrics.total_rest_frames >= call.metrics.rest_count
    /\ call.metrics.total_rest_frames = 0 <=> call.metrics.rest_count = 0

\* A track of a slow step, a fast step and a slow step that ends it: two
\* rest periods of one frame each.
C35_Witness ==
  /\ FeatureCalled
  /\ Len(call.positions) = 4
  /\ SlowSteps = {1, 3}
  /\ call.metrics.rest_count = 2
  /\ call.metrics.total_rest_frames = 2


\* ------------------------------------------------- active-set invariant
\* C36: after every frame each active track has missed at most the skip
\* budget, rests exactly when it has missed at least one frame, and a
\* RobustTrack's rest_zone_center is its last recorded position while it
\* rests and None while it does not.
C36_ActiveSetInvariant ==
  \A i \in DOMAIN active_tracks :
    LET t == ActiveObjects[i]
    IN  /\ t.frames_since_detection <= Budget
        /\ t.is_resting <=> t.frames_since_detection >= 1
        /\ engine = "robust" =>
              IF t.is_resting
              THEN t.positions # <<>> /\ t.rest_zone_center = Last(t.positions)
              ELSE t.rest_zone_center = None

\* The Robust tracker holds a resting track that has used its whole budget
\* next to a track that rested, was matched again and is not resting.
C36_Witness ==
  /\ engine = "robust"
  /\ \E i, j \in DOMAIN active_tracks :
       LET t == ActiveObjects[i]
           w == ActiveObjects[j]
       IN  /\ t.is_resting
           /\ t.frames_since_detection = Budget
           /\ t.rest_zone_center = Last(t.positions)
           /\ ~w.is_resting
           /\ Len(w.frames) >= 2
           /\ w.frames[2] > w.frames[1] + 1
           /\ w.rest_zone_center = None


\* ------------------------------------------------------ frame histories
IsPrefix(a, b) == Len(a) <= Len(b) /\ \A i \in DOMAIN a : a[i] = b[i]

StrictlyIncreasing(s) == \A i, j \in DOMAIN s : i < j => s[i] < s[j]

\* The track was detected in every frame from its first to its last.
NeverMissedBetween(t) ==
  \A f \in t.frames[1]..Last(t.frames) : f \in Range(t.frames)

\* C37: in every step, each track's frames history after the step is
\* strictly increasing and ends no later than the frame just processed, it
\* extends the history before the step (as do the positions and boxes), and
\* a RobustTrack's total_duration is at least its length, equal exactly
\* when the track missed no frame between its first and last detection.
C37_FrameHistories ==
  [][ \A id \in DOMAIN tracks' :
        LET t == tracks'[id]
        IN  /\ t.frames # <<>>
            /\ StrictlyIncreasing(t.frames)
            /\ Last(t.frames) <= frame_idx' - 1
            /\ id \in DOMAIN tracks =>
                  /\ IsPrefix(tracks[id].frames, t.frames)
                  /\ IsPrefix(tracks[id].positions, t.positions)
                  /\ IsPrefix(tracks[id].bboxes, t.bboxes)
            /\ engine = "robust" =>
                  /\ RobustTotalDuration(t) >= RobustLength(t)
                  /\ RobustTotalDuration(t) = RobustLength(t)
                        <=> NeverMissedBetween(t)
    ]_vars

\* One RobustTrack was re-detected after a missed frame (duration above its
\* length), another was detected in consecutive frames (duration = length).
C37_Witness ==
  /\ engine = "robust"
  /\ \E a, b \in DOMAIN tracks :
       /\ RobustLength(tracks[a]) >= 2
       /\ RobustTotalDuration(tracks[a]) > RobustLength(tracks[a])
       /\ RobustLength(tracks[b]) >= 2
       /\ RobustTotalDuration(tracks[b]) = RobustLength(tracks[b])


\* ----------------------------------------------------- greedy maximality
\* Detection c of the recorded frame was matched to a track.
DetectionMatched(rec, c) == \E a \in Range(rec.accepted) : a[1] = c

\* The track at index k of the list given to the matcher was matched.
TrackMatched(rec, k) == \E a \in Range(rec.accepted) : a[2] = k

\* A new track was created for detection c of the recorded frame.
CreatedFor(rec, c) == rec.assigned[c] \cap rec.created # {}

\* C38: after the matching step of a frame no detection and track are both
\* left unmatched while the detection is within the track's cap (adjusted
\* distance, on the state at the start of the frame); a detection gets a new
\* track only if every track it is within the cap of was claimed by another
\* detection.
C38_GreedyMaximal ==
  [][MatchingFrame =>
       \A c \in DOMAIN last'.detections :
         LET pt == last'.detections[c].centroid
             Eligible == { k \in DOMAIN active_tracks : WithinCap(pt, ActiveObjects[k]) }
         IN  /\ \A k \in Eligible : DetectionMatched(last', c) \/ TrackMatched(last', k)
             /\ CreatedFor(last', c) =>
                   \A k \in Eligible :
                     \E a \in Range(last'.accepted) : a[2] = k /\ a[1] # c]_vars

\* A frame created a track for a detection that was a match candidate of a
\* track another detection claimed.
C38_Witness ==
  \E c \in DOMAIN last.detections, k \in DOMAIN last.started :
    /\ IsCandidatePair(last, c, k)
    /\ CreatedFor(last, c)
    /\ \E a \in Range(last.accepted) : a[2] = k /\ a[1] # c


\* ------------------------------------------------ active-set conservation
NoDuplicates(s) == \A i, j \in DOMAIN s : s[i] = s[j] => i = j

\* C40: after a frame the active list holds each track at most once; its
\* tracks that existed before the frame are exactly the previously active
\* ones that were matched or have still missed at most the skip budget; the
\* others are new, exactly one per unmatched detection; a track that was not
\* active before the frame is not active after it.
C40_ActiveSetConservation ==
  [][FrameStep =>
       LET unmatchedDets == { c \in DOMAIN last'.detections : ~DetectionMatched(last', c) }
           survivors == { id \in Range(active_tracks) :
                            \/ id \in last'.matched
                            \/ tracks'[id].frames_since_detection <= Budget }
           new == Range(active_tracks') \ DOMAIN tracks
       IN  /\ NoDuplicates(active_tracks')
           /\ Range(active_tracks') \cap DOMAIN tracks = survivors
           /\ Cardinality(new) = Cardinality(unmatchedDets)
           /\ \A c \in unmatchedDets :
                 \E id \in new :
                   /\ last'.assigned[c] = {id}
                   /\ tracks'[id].positions = << last'.detections[c].centroid >>
           /\ \A c \in DOMAIN last'.detections \ unmatchedDets :
                 last'.assigned[c] \cap new = {}
           /\ \A id \in DOMAIN tracks \ Range(active_tracks) :
                 id \notin Range(active_tracks')]_vars

\* The last frame matched one track, kept an unmatched one within its
\* budget, dropped one that exceeded it and created a new one.
C40_Witness ==
  /\ last.matched # {}
  /\ last.created # {}
  /\ \E id \in Range(last.started) \ last.matched :
       id \in Range(active_tracks) /\ tracks[id].frames_since_detection >= 1
  /\ \E id \in Range(last.started) : id \notin Range(active_tracks)

====
